---- MODULE Spec2Model ----
(***************************************************************************)
(* A model of the Erbie node: the journaled state database (core/state),   *)
(* the custom-instruction bridge of the EVM (core/vm, core), the block     *)
(* finalization of the consensus engine, and the empty-block watchdog of   *)
(* the miner.                                                              *)
(*                                                                         *)
(* Amounts are counted in units of 4*10^14 wei, the greatest common        *)
(* divisor of the monetary constants of the program (10^16, 10^17, 10^18   *)
(* and the block reward 5.436*10^17), so that every constant is a small    *)
(* integer.  A nil pointer is the empty tuple << >>, a non-nil pointer to  *)
(* a value x is the tuple << x >>.                                         *)
(***************************************************************************)
EXTENDS Integers, Sequences, FiniteSets, TLC

VARIABLES
    state,        \* the StateDB (w.current.state): live objects, trie, journal, revisions
    blockNumber,  \* number of the block under construction (evm.Context.BlockNumber)
    saved,        \* history: id -> account state observed right after Snapshot() returned id
    last,         \* history: record of the operation executed by the last step
    registered,   \* history: addresses that completed a validator registration
    steps,        \* number of steps taken (bounded exploration)
    proofs,       \* ProofStatePool.proofs: height -> proof state
    head,         \* chain.CurrentHeader().Number
    isEmpty,      \* worker.isEmpty
    targetWeightBalance, \* worker.targetWeightBalance
    cacheHeight,  \* worker.cacheHeight
    resultCh,     \* signatureResultCh: results sent and not yet received by emptyLoop
    sealed,       \* results for which emptyLoop called commitEmptyWork
    coeff,        \* validator coefficients in the state at the current block
    cstakers,     \* Certify.stakers: the validator pool read by emptyLoop
    pool,         \* the validator pool stored in the chain at the current block
    events,       \* vote events cached in messageList or posted, not yet handled
    voteIndex,    \* Certify.voteIndex
    recorded,     \* history: the first error handed to setError on this instance
    other,        \* a second StateDB instance: the argument or result of a Copy
    shared,       \* the pointer fields the two instances' objects have in common
    txpool,       \* the executable transactions pending in the transaction pool
    emptyBlocks,  \* history: the blocks commitEmptyWork sealed and inserted
    running,      \* worker.running: the miner is started
    totalCondition, \* worker.totalCondition: ticks counted by emptyLoop
    emptyTimer,   \* worker.emptyTimer is armed
    pc,           \* where each goroutine of the worker stands
    resetEmptyCh, \* worker.resetEmptyCh: number of buffered signals (capacity 1)
    chainHeadCh,  \* worker.chainHeadCh: numbers of the head events not yet received
    taskCh,       \* worker.taskCh: the task mainLoop is sending, if any
    stopCh,       \* taskLoop's stopCh: the task whose sealing is in flight, if any
    valiTotal,    \* emptyLoop's valiTotal, from the tick that starts a vote until the vote starts
    lock,         \* Certify.lock is held
    results,      \* resultLoop: the pending tasks, the blocks in the database, what was written and announced
    work          \* the work cycle of mainLoop: the transactions, the interrupt flag, what was submitted

vars == <<state, blockNumber, saved, last, registered, steps, proofs, head,
          isEmpty, targetWeightBalance, cacheHeight, resultCh, sealed, coeff,
          cstakers, pool, events, voteIndex, recorded, other, shared,
          txpool, emptyBlocks, running, totalCondition, emptyTimer, pc,
          resetEmptyCh, chainHeadCh, taskCh, stopCh, valiTotal, lock,
          results, work>>

stateVars == <<state, blockNumber, saved, last, registered, steps>>
voteVars == <<proofs, head, isEmpty, targetWeightBalance, cacheHeight, resultCh,
              sealed, coeff, cstakers, pool, events, voteIndex>>
instanceVars == <<recorded, other, shared>>
blockVars == <<txpool, emptyBlocks>>
minerVars == <<results, work>>
loopVars == <<running, totalCondition, emptyTimer, pc, resetEmptyCh, chainHeadCh,
              taskCh, stopCh, valiTotal, lock>>

----------------------------------------------------------------------------
(* Pointers *)

Nil == << >>
Some(x) == << x >>
Deref(p) == p[1]

\* a local variable: Bind([x \in {e} |-> body]) is body with x the value of e,
\* which is computed once
Bind(f) == f[CHOOSE x \in DOMAIN f : TRUE]

----------------------------------------------------------------------------
(* Constants of the program *)

ZeroAddress == 0
MintDeepStorageAddress == 1
ValidatorStorageAddress == 2
StakerStorageAddress == 3

VALIDATOR_COEFFICIENT == 70
DEFAULT_VALIDATOR_COEFFICIENT == VALIDATOR_COEFFICIENT

\* 10^18 wei, 10^17 wei and 10^16 wei in units of 4*10^14 wei
baseErb == 2500
coebaseErb == 250
recoverUnit == 25
DREBlockReward == 1359
PercentageValidatorReward == 7
CancelDayPledgedInterval == 720 * 24 * 30
ReduceRewardPeriod == 365 * 720 * 24

StakerBase == 350 * baseErb
ValidatorBase == 35000 * baseErb

----------------------------------------------------------------------------
(* Account data (types.Account and its extension records) *)

EmptyWorm == [PledgedBalance |-> 0, PledgedBlockNumber |-> 0, Coefficient |-> 0,
              ValidatorProxy |-> ZeroAddress,
              StakerExtension |-> << >>, ValidatorExtension |-> << >>]

EmptyCsbt == [Owner |-> ZeroAddress, Creator |-> ZeroAddress]

\* OfficialMint counts from the mask 0x8000000000000000000000000000000000000000
EmptyStaker == [Validators |-> << >>, UserMint |-> 0, OfficialMint |-> 0]

EmptyAccount == [Nonce |-> 0, Balance |-> 0, Worm |-> Nil, Csbt |-> Nil,
                 Staker |-> Nil, Extra |-> Nil]

\* newObject: the live object wrapping account data; a nil Extra becomes an
\* allocated empty slice
newObject(data) ==
    [data |-> [data EXCEPT !.Extra = Some(<< >>)], suicided |-> FALSE, deleted |-> FALSE]

\* stateObject.empty
empty(obj) ==
    /\ obj.data.Nonce = 0
    /\ obj.data.Balance = 0
    /\ obj.data.Worm = Nil
    /\ obj.data.Csbt = Nil
    /\ obj.data.Staker = Nil
    /\ obj.data.Extra = Nil

----------------------------------------------------------------------------
(* The journal *)

\* journal.append
append(db, entry) == [db EXCEPT !.journal = Append(@, entry)]

\* journal.dirties: the addresses with at least one entry in the journal
dirties(db) ==
    {db.journal[i].account :
        i \in {j \in 1..Len(db.journal) : db.journal[j].kind # "refundChange"}}

\* setStateObject
setStateObject(db, addr, obj) ==
    [db EXCEPT !.stateObjects =
        [a \in (DOMAIN @) \cup {addr} |-> IF a = addr THEN obj ELSE @[a]]]

\* the revert method of each journal entry
revertEntry(db, e) ==
    CASE e.kind = "createObjectChange" ->
            [db EXCEPT !.stateObjects = [a \in (DOMAIN @) \ {e.account} |-> @[a]]]
      [] e.kind = "resetObjectChange" -> setStateObject(db, e.account, e.prev)
      [] e.kind = "suicideChange" ->
            [db EXCEPT !.stateObjects[e.account].suicided = e.prev,
                       !.stateObjects[e.account].data.Balance = e.prevbalance]
      [] e.kind = "touchChange" -> db
      [] e.kind = "refundChange" -> [db EXCEPT !.refund = e.prev]
      [] e.kind = "balanceChange" ->
            [db EXCEPT !.stateObjects[e.account].data.Balance = e.prev]
      [] e.kind = "nonceChange" ->
            [db EXCEPT !.stateObjects[e.account].data.Nonce = e.prev]
      [] e.kind = "pledgedBalanceChange" ->
            [db EXCEPT !.stateObjects[e.account].data.Worm[1].PledgedBalance = e.prev]
      [] e.kind = "pledgedBlockNumberChange" ->
            [db EXCEPT !.stateObjects[e.account].data.Worm[1].PledgedBlockNumber = e.prev]
      [] e.kind = "coefficientChange" ->
            [db EXCEPT !.stateObjects[e.account].data.Worm[1].Coefficient = e.prev]
      [] e.kind = "validatorProxyChange" ->
            [db EXCEPT !.stateObjects[e.account].data.Worm[1].ValidatorProxy = e.prev]
      [] e.kind = "stakerExtensionChange" ->
            [db EXCEPT !.stateObjects[e.account].data.Worm[1].StakerExtension = e.prev]
      [] e.kind = "validatorExtensionChange" ->
            [db EXCEPT !.stateObjects[e.account].data.Worm[1].ValidatorExtension = e.prev]
      [] e.kind = "validatorsChange" ->
            [db EXCEPT !.stateObjects[e.account].data.Staker[1].Validators = e.prev]
      [] e.kind = "nftOwnerChange" ->
            [db EXCEPT !.stateObjects[e.account].data.Csbt[1].Owner = e.prev]

\* journal.revert: undo the entries above the snapshot index, newest first
RECURSIVE revert(_, _)
revert(db, snapshot) ==
    IF Len(db.journal) <= snapshot THEN db
    ELSE LET e == db.journal[Len(db.journal)]
             undone == revertEntry(db, e)
         IN  revert([undone EXCEPT !.journal = SubSeq(@, 1, Len(@) - 1)], snapshot)

----------------------------------------------------------------------------
(* StateDB: retrieval and creation of state objects *)

\* setError remembers the first non-nil error it is called with
setError(db, err) == IF db.dbErr = Nil THEN [db EXCEPT !.dbErr = Some(err)] ELSE db

\* getDeletedStateObject: the live object, else the account loaded from the
\* trie.  A failing trie read is remembered with setError; a record that
\* does not decode is logged only.  In both cases nil is returned and no
\* object is inserted into the live set.
getDeletedStateObject(db, addr) ==
    IF addr \in DOMAIN db.stateObjects THEN db
    ELSE IF addr \in db.trieFaults
         THEN setError(db, [fn |-> "getDeleteStateObject", addr |-> addr])
    ELSE IF addr \in DOMAIN db.trie /\ addr \notin db.undecodable
         THEN setStateObject(db, addr, newObject(db.trie[addr]))
         ELSE db

\* getStateObject returns non-nil iff the object is present and not deleted
hasStateObject(db, addr) ==
    Bind([d \in {getDeletedStateObject(db, addr)} |->
        addr \in DOMAIN d.stateObjects /\ ~d.stateObjects[addr].deleted])

Exist(db, addr) == hasStateObject(db, addr)

\* createObject
createObject(db, addr) ==
    Bind([d \in {getDeletedStateObject(db, addr)} |->
    Bind([hasPrev \in {addr \in DOMAIN d.stateObjects} |->
        LET newobj == newObject(EmptyAccount)
            j == IF hasPrev
                 THEN append(d, [kind |-> "resetObjectChange", account |-> addr,
                                 prev |-> d.stateObjects[addr]])
                 ELSE append(d, [kind |-> "createObjectChange", account |-> addr])
        IN  [db |-> setStateObject(j, addr, newobj),
             prev |-> IF hasPrev /\ ~d.stateObjects[addr].deleted
                      THEN Some(d.stateObjects[addr]) ELSE Nil]])])

\* GetOrNewStateObject
GetOrNewStateObject(db, addr) ==
    IF hasStateObject(db, addr) THEN getDeletedStateObject(db, addr)
    ELSE createObject(db, addr).db

\* GetOrNewAccountStateObject: a missing Worm record of an existing object is
\* allocated in place, without a journal entry
GetOrNewAccountStateObject(db, addr) ==
    Bind([d \in {IF hasStateObject(db, addr) THEN getDeletedStateObject(db, addr)
         ELSE Bind([c \in {createObject(db, addr)} |->
                  LET b == IF c.prev # Nil
                           THEN [c.db EXCEPT !.stateObjects[addr].data.Balance =
                                             Deref(c.prev).data.Balance]
                           ELSE c.db
                  IN  [b EXCEPT !.stateObjects[addr].data.Worm = Some(EmptyWorm),
                                !.stateObjects[addr].data.Csbt = Nil]])} |->
             IF d.stateObjects[addr].data.Worm = Nil
             THEN [d EXCEPT !.stateObjects[addr].data.Worm = Some(EmptyWorm)]
             ELSE d])

\* GetOrNewNFTStateObject: likewise for the Csbt record
GetOrNewNFTStateObject(db, addr) ==
    Bind([d \in {IF hasStateObject(db, addr) THEN getDeletedStateObject(db, addr)
         ELSE LET c == createObject(db, addr)
              IN  [c.db EXCEPT !.stateObjects[addr].data.Worm = Nil,
                               !.stateObjects[addr].data.Csbt = Some(EmptyCsbt)]} |->
             IF d.stateObjects[addr].data.Csbt = Nil
             THEN [d EXCEPT !.stateObjects[addr].data.Csbt = Some(EmptyCsbt)]
             ELSE d])

\* GetOrNewStakerStateObject: likewise for the Staker record
GetOrNewStakerStateObject(db, addr) ==
    LET fresh == IF addr = MintDeepStorageAddress
                 THEN [EmptyStaker EXCEPT !.UserMint = 1] ELSE EmptyStaker
    IN  Bind([d \in {IF hasStateObject(db, addr) THEN getDeletedStateObject(db, addr)
             ELSE [createObject(db, addr).db EXCEPT
                       !.stateObjects[addr].data.Staker = Some(fresh)]} |->
                 IF d.stateObjects[addr].data.Staker = Nil
                 THEN [d EXCEPT !.stateObjects[addr].data.Staker = Some(fresh)]
                 ELSE d])

\* CreateAccount
CreateAccount(db, addr) == GetOrNewAccountStateObject(db, addr)

----------------------------------------------------------------------------
(* Lists kept in the extension records (core/types) *)

RemoveAt(list, i) == SubSeq(list, 1, i - 1) \o SubSeq(list, i + 1, Len(list))

\* index of the first entry of the list with the address, 0 if none
IndexOf(list, addr) ==
    IF \E i \in 1..Len(list) : list[i].Addr = addr
    THEN CHOOSE i \in 1..Len(list) :
             /\ list[i].Addr = addr
             /\ \A j \in 1..(i - 1) : list[j].Addr # addr
    ELSE 0

RECURSIVE SumBalance(_)
SumBalance(list) ==
    IF list = << >> THEN 0 ELSE Head(list).Balance + SumBalance(Tail(list))

\* ValidatorsExtensionList.AddValidatorPledge
AddValidatorPledge(list, addr, balance, blocknumber) ==
    LET i == IndexOf(list, addr)
    IN  IF i # 0
        THEN [list EXCEPT ![i].Balance = @ + balance, ![i].BlockNumber = blocknumber]
        ELSE Append(list, [Addr |-> addr, Balance |-> balance, BlockNumber |-> blocknumber])

\* a removal that drops the entry whatever balance is left in it
RemoveValidatorPledgeWhole(list, addr, balance) ==
    LET i == IndexOf(list, addr)
    IN  IF i = 0 THEN list ELSE RemoveAt(list, i)

\* ValidatorsExtensionList.RemoveValidatorPledge
RemoveValidatorPledge(list, addr, balance) ==
    LET i == IndexOf(list, addr)
    IN  IF i = 0 THEN list
        ELSE IF list[i].Balance > balance
             THEN [list EXCEPT ![i].Balance = @ - balance]
             ELSE RemoveAt(list, i)

\* ValidatorsExtensionList.GetBalance
GetBalanceOf(list, addr) ==
    LET i == IndexOf(list, addr) IN IF i = 0 THEN 0 ELSE list[i].Balance

\* ValidatorsExtensionList.GetAllBalance
GetAllBalance(list) == SumBalance(list)

\* StakersExtensionList.AddStakerPledge
AddStakerPledge(list, addr, balance, blocknumber) ==
    LET i == IndexOf(list, addr)
    IN  IF i # 0
        THEN [list EXCEPT ![i].Balance = @ + balance, ![i].BlockNumber = blocknumber]
        ELSE Append(list, [Addr |-> addr, Balance |-> balance, BlockNumber |-> blocknumber])

\* StakersExtensionList.RemoveStakerPledge
RemoveStakerPledgeFrom(list, addr, balance) ==
    LET i == IndexOf(list, addr)
    IN  IF i = 0 THEN list
        ELSE IF list[i].Balance > balance
             THEN [list EXCEPT ![i].Balance = @ - balance]
             ELSE RemoveAt(list, i)

\* ValidatorList.Exist
ValidatorListExist(list, addr) ==
    \E i \in 1..Len(list) : list[i].Addr = addr \/ list[i].Proxy = addr

\* ValidatorList.AddValidator
ListAddValidator(list, addr, balance, proxy) ==
    LET i == IndexOf(list, addr)
    IN  IF /\ proxy # ZeroAddress
           /\ \E j \in 1..Len(list) : list[j].Addr # addr /\ list[j].Proxy = proxy
        THEN [ok |-> FALSE, list |-> list]
        ELSE IF i # 0
             THEN [ok |-> TRUE,
                   list |-> [list EXCEPT ![i].Balance = @ + balance,
                                         ![i].Proxy = IF proxy # ZeroAddress THEN proxy ELSE @]]
             ELSE [ok |-> TRUE,
                   list |-> Append(list, [Addr |-> addr, Balance |-> balance, Proxy |-> proxy])]

\* ValidatorList.RemoveValidator
ListRemoveValidator(list, addr, balance) ==
    LET i == IndexOf(list, addr)
    IN  IF i = 0 THEN [ok |-> FALSE, list |-> list]
        ELSE IF list[i].Balance > balance
             THEN [ok |-> TRUE, list |-> [list EXCEPT ![i].Balance = @ - balance]]
             ELSE [ok |-> TRUE, list |-> RemoveAt(list, i)]

\* ValidatorList.SetValidatorAmount
ListSetValidatorAmount(list, addr, balance, proxy) ==
    LET i == IndexOf(list, addr)
    IN  IF i # 0
        THEN [ok |-> TRUE,
              list |-> [list EXCEPT ![i].Balance = balance,
                                    ![i].Proxy = IF proxy # ZeroAddress THEN proxy ELSE @]]
        ELSE [ok |-> TRUE,
              list |-> Append(list, [Addr |-> addr, Balance |-> balance, Proxy |-> proxy])]

\* ValidatorList.ResetRemoveValidator
ListResetRemoveValidator(list, addr) ==
    LET i == IndexOf(list, addr)
    IN  IF i = 0 THEN [ok |-> FALSE, list |-> list]
        ELSE [ok |-> TRUE, list |-> RemoveAt(list, i)]

----------------------------------------------------------------------------
(* stateObject: journaled setters.  Each takes the database and the address *)
(* of a live object and returns the database after the call.                *)

Obj(db, addr) == db.stateObjects[addr]
Worm(db, addr) == Deref(db.stateObjects[addr].data.Worm)
Staker(db, addr) == Deref(db.stateObjects[addr].data.Staker)
Csbt(db, addr) == Deref(db.stateObjects[addr].data.Csbt)

\* stateObject.touch
touch(db, addr) == append(db, [kind |-> "touchChange", account |-> addr])

\* stateObject.SetBalance
so_SetBalance(db, addr, amount) ==
    [append(db, [kind |-> "balanceChange", account |-> addr,
                 prev |-> Obj(db, addr).data.Balance])
        EXCEPT !.stateObjects[addr].data.Balance = amount]

\* stateObject.AddBalance
so_AddBalance(db, addr, amount) ==
    IF amount = 0
    THEN IF empty(Obj(db, addr)) THEN touch(db, addr) ELSE db
    ELSE so_SetBalance(db, addr, Obj(db, addr).data.Balance + amount)

\* stateObject.SubBalance
so_SubBalance(db, addr, amount) ==
    IF amount = 0 THEN db
    ELSE so_SetBalance(db, addr, Obj(db, addr).data.Balance - amount)

\* stateObject.SetNonce
so_SetNonce(db, addr, nonce) ==
    [append(db, [kind |-> "nonceChange", account |-> addr,
                 prev |-> Obj(db, addr).data.Nonce])
        EXCEPT !.stateObjects[addr].data.Nonce = nonce]

\* stateObject.SetPledgedBalance
so_SetPledgedBalance(db, addr, amount) ==
    [append(db, [kind |-> "pledgedBalanceChange", account |-> addr,
                 prev |-> Worm(db, addr).PledgedBalance])
        EXCEPT !.stateObjects[addr].data.Worm[1].PledgedBalance = amount]

\* stateObject.AddPledgedBalance
so_AddPledgedBalance(db, addr, amount) ==
    IF amount = 0
    THEN IF empty(Obj(db, addr)) THEN touch(db, addr) ELSE db
    ELSE so_SetPledgedBalance(db, addr, Worm(db, addr).PledgedBalance + amount)

\* stateObject.SubPledgedBalance
so_SubPledgedBalance(db, addr, amount) ==
    IF amount = 0 THEN db
    ELSE so_SetPledgedBalance(db, addr, Worm(db, addr).PledgedBalance - amount)

\* stateObject.SetPledgedBlockNumber
so_SetPledgedBlockNumber(db, addr, blocknumber) ==
    [append(db, [kind |-> "pledgedBlockNumberChange", account |-> addr,
                 prev |-> Worm(db, addr).PledgedBlockNumber])
        EXCEPT !.stateObjects[addr].data.Worm[1].PledgedBlockNumber = blocknumber]

\* stateObject.SetCoefficient
so_SetCoefficient(db, addr, coe) ==
    [append(db, [kind |-> "coefficientChange", account |-> addr,
                 prev |-> Worm(db, addr).Coefficient])
        EXCEPT !.stateObjects[addr].data.Worm[1].Coefficient = coe]

SubCoefficientValueNoFloor(c, coe) == IF c < coe THEN 0 ELSE c - coe

\* stateObject.SubCoefficient: the value after the subtraction
SubCoefficientValue(c, coe) ==
    IF c < coe THEN 1
    ELSE IF c - coe >= 1 THEN c - coe ELSE 1

\* stateObject.AddCoefficient
so_AddCoefficient(db, addr, coe) == so_SetCoefficient(db, addr, VALIDATOR_COEFFICIENT)

\* stateObject.SubCoefficient
so_SubCoefficient(db, addr, coe) ==
    so_SetCoefficient(db, addr, SubCoefficientValue(Worm(db, addr).Coefficient, coe))

\* stateObject.RemoveCoefficient
so_RemoveCoefficient(db, addr) == so_SetCoefficient(db, addr, 0)

\* stateObject.SetValidatorProxy
so_SetValidatorProxy(db, addr, proxy) ==
    [append(db, [kind |-> "validatorProxyChange", account |-> addr,
                 prev |-> Worm(db, addr).ValidatorProxy])
        EXCEPT !.stateObjects[addr].data.Worm[1].ValidatorProxy = proxy]

\* stateObject.SetStakerPledge
so_SetStakerPledge(db, addr, newStakers) ==
    [append(db, [kind |-> "stakerExtensionChange", account |-> addr,
                 prev |-> Worm(db, addr).StakerExtension])
        EXCEPT !.stateObjects[addr].data.Worm[1].StakerExtension = newStakers]

\* stateObject.StakerPledge
so_StakerPledge(db, addr, to, amount, blocknumber) ==
    so_SetStakerPledge(db, addr,
        AddStakerPledge(Worm(db, addr).StakerExtension, to, amount, blocknumber))

\* stateObject.RemoveStakerPledge
so_RemoveStakerPledge(db, addr, to, amount) ==
    so_SetStakerPledge(db, addr,
        RemoveStakerPledgeFrom(Worm(db, addr).StakerExtension, to, amount))

\* stateObject.SetValidatorExtension
so_SetValidatorExtension(db, addr, newStakers) ==
    [append(db, [kind |-> "validatorExtensionChange", account |-> addr,
                 prev |-> Worm(db, addr).ValidatorExtension])
        EXCEPT !.stateObjects[addr].data.Worm[1].ValidatorExtension = newStakers]

\* stateObject.AddValidatorExtension
so_AddValidatorExtension(db, addr, from, amount, blocknumber) ==
    so_SetValidatorExtension(db, addr,
        AddValidatorPledge(Worm(db, addr).ValidatorExtension, from, amount, blocknumber))

\* stateObject.RemoveValidatorExtension
so_RemoveValidatorExtension(db, addr, from, amount) ==
    so_SetValidatorExtension(db, addr,
        RemoveValidatorPledge(Worm(db, addr).ValidatorExtension, from, amount))

\* stateObject.SetValidators
so_SetValidators(db, addr, validators) ==
    [append(db, [kind |-> "validatorsChange", account |-> addr,
                 prev |-> Staker(db, addr).Validators])
        EXCEPT !.stateObjects[addr].data.Staker[1].Validators = validators]

\* stateObject.AddValidator, RemoveValidator, SetValidatorAmount and
\* ResetemoveValidator: install the new list only if the list method succeeded
installValidators(db, addr, r) ==
    IF r.ok THEN so_SetValidators(db, addr, r.list) ELSE db

so_AddValidator(db, addr, v, balance, proxy) ==
    installValidators(db, addr, ListAddValidator(Staker(db, addr).Validators, v, balance, proxy))

so_RemoveValidator(db, addr, v, balance) ==
    installValidators(db, addr, ListRemoveValidator(Staker(db, addr).Validators, v, balance))

so_SetValidatorAmount(db, addr, v, balance, proxy) ==
    installValidators(db, addr,
        ListSetValidatorAmount(Staker(db, addr).Validators, v, balance, proxy))

so_ResetemoveValidator(db, addr, v) ==
    installValidators(db, addr, ListResetRemoveValidator(Staker(db, addr).Validators, v))

\* stateObject.SetOwner
so_SetOwner(db, addr, newowner) ==
    [append(db, [kind |-> "nftOwnerChange", account |-> addr,
                 prev |-> Csbt(db, addr).Owner])
        EXCEPT !.stateObjects[addr].data.Csbt[1].Owner = newowner]

----------------------------------------------------------------------------
(* StateDB: methods.  A method that only mutates returns the database; a   *)
(* method with a result returns a record holding the database and the      *)
(* result, because the get-or-new retrieval may change the database even   *)
(* in a read.                                                              *)

\* StateDB.GetBalance
GetBalance(db, addr) ==
    IF hasStateObject(db, addr)
    THEN getDeletedStateObject(db, addr).stateObjects[addr].data.Balance
    ELSE 0

\* StateDB.GetNonce
GetNonce(db, addr) ==
    IF hasStateObject(db, addr)
    THEN getDeletedStateObject(db, addr).stateObjects[addr].data.Nonce
    ELSE 0

\* StateDB.AddBalance
AddBalance(db, addr, amount) ==
    so_AddBalance(GetOrNewAccountStateObject(db, addr), addr, amount)

\* StateDB.GetAccountInfo: the state after the call
GetAccountInfo(db, addr) == GetOrNewStateObject(db, addr)

\* StateDB.SubBalance
SubBalance(db, addr, amount) ==
    so_SubBalance(GetOrNewAccountStateObject(db, addr), addr, amount)

\* StateDB.SetBalance
SetBalance(db, addr, amount) ==
    so_SetBalance(GetOrNewAccountStateObject(db, addr), addr, amount)

\* StateDB.SetNonce
SetNonce(db, addr, nonce) ==
    so_SetNonce(GetOrNewAccountStateObject(db, addr), addr, nonce)

\* StateDB.Snapshot
Snapshot(db) ==
    [db |-> [db EXCEPT !.nextRevisionId = @ + 1,
                       !.validRevisions = Append(@, [id |-> db.nextRevisionId,
                                                     journalIndex |-> Len(db.journal)])],
     id |-> db.nextRevisionId]

\* the index found by sort.Search in RevertToSnapshot (0-based), Len if none
revisionIndex(db, revid) ==
    Bind([hits \in {{i \in 1..Len(db.validRevisions) : db.validRevisions[i].id >= revid}} |->
        IF hits = {} THEN Len(db.validRevisions)
        ELSE (CHOOSE i \in hits : \A j \in hits : i <= j) - 1])

validRevisionSearchOnly(db, revid) ==
    revisionIndex(db, revid) # Len(db.validRevisions)

\* RevertToSnapshot does not panic for this revision id
validRevision(db, revid) ==
    Bind([idx \in {revisionIndex(db, revid)} |->
        idx # Len(db.validRevisions) /\ db.validRevisions[idx + 1].id = revid])

RevertToSnapshotTop(db, revid) ==
    Bind([idx \in {revisionIndex(db, revid)} |->
        [revert(db, db.validRevisions[Len(db.validRevisions)].journalIndex)
            EXCEPT !.validRevisions = SubSeq(@, 1, idx)]])

\* StateDB.RevertToSnapshot, for a revision id that does not panic
RevertToSnapshot(db, revid) ==
    Bind([idx \in {revisionIndex(db, revid)} |->
        [revert(db, db.validRevisions[idx + 1].journalIndex)
            EXCEPT !.validRevisions = SubSeq(@, 1, idx)]])

\* StateDB.GetNFTOwner16
GetNFTOwner16(db, addr) ==
    Bind([d \in {GetOrNewNFTStateObject(db, addr)} |->
         [db |-> d, val |-> Csbt(d, addr).Owner]])

\* StateDB.ChangeNFTOwner
ChangeNFTOwner(db, nftAddr, newOwner) ==
    so_SetOwner(GetOrNewNFTStateObject(db, nftAddr), nftAddr, newOwner)

\* StateDB.GetStakerPledged: the delegation record of from at addr
GetStakerPledged(db, from, addr) ==
    Bind([d \in {GetOrNewAccountStateObject(db, from)} |->
    Bind([list \in {Worm(d, from).StakerExtension} |->
    Bind([i \in {IndexOf(list, addr)} |->
        [db |-> d,
         val |-> IF i # 0 THEN [Balance |-> list[i].Balance, BlockNumber |-> list[i].BlockNumber]
                 ELSE [Balance |-> 0, BlockNumber |-> 0]]])])])

\* StateDB.GetStakerPledgedBalance
GetStakerPledgedBalance(db, from, addr) ==
    Bind([d \in {GetOrNewAccountStateObject(db, from)} |->
         [db |-> d, val |-> GetBalanceOf(Worm(d, from).StakerExtension, addr)]])

\* StateDB.GetPledgedBalance
GetPledgedBalance(db, addr) ==
    Bind([d \in {GetOrNewAccountStateObject(db, addr)} |->
         [db |-> d, val |-> Worm(d, addr).PledgedBalance]])

\* StateDB.GetValidatorCoefficient
GetValidatorCoefficient(db, addr) ==
    Bind([d \in {GetOrNewAccountStateObject(db, addr)} |->
         [db |-> d, val |-> Worm(d, addr).Coefficient]])

\* StateDB.AddValidatorCoefficient
AddValidatorCoefficient(db, addr, coe) ==
    so_AddCoefficient(GetOrNewAccountStateObject(db, addr), addr, coe)

\* StateDB.SubValidatorCoefficient
SubValidatorCoefficient(db, addr, coe) ==
    so_SubCoefficient(GetOrNewAccountStateObject(db, addr), addr, coe)

\* StateDB.RemoveValidatorCoefficient
RemoveValidatorCoefficient(db, addr) ==
    so_RemoveCoefficient(GetOrNewAccountStateObject(db, addr), addr)

\* StateDB.GetValidators: the registry kept at ValidatorStorageAddress
GetValidators(db) ==
    Bind([d \in {GetOrNewStakerStateObject(db, ValidatorStorageAddress)} |->
         [db |-> d, val |-> Staker(d, ValidatorStorageAddress).Validators]])

\* a pledge that is recorded without being taken from the balance
StakerPledgeNoDebit(db, from, address, amount, blocknumber, newProxy) ==
    Bind([d1 \in {GetOrNewAccountStateObject(GetOrNewAccountStateObject(db, address), from)} |->
    Bind([d3 \in {so_StakerPledge(d1, from, address, amount, blocknumber)} |->
    Bind([d4 \in {so_AddPledgedBalance(d3, address, amount)} |->
    Bind([d6 \in {so_AddValidatorExtension(d4, address, from, amount, blocknumber)} |->
        so_SetPledgedBlockNumber(d6, from, blocknumber)])])])])

\* StateDB.StakerPledge
StakerPledge(db, from, address, amount, blocknumber, newProxy) ==
    Bind([d1 \in {GetOrNewAccountStateObject(GetOrNewAccountStateObject(db, address), from)} |->
    Bind([d2 \in {so_SubBalance(d1, from, amount)} |->
    Bind([d3 \in {so_StakerPledge(d2, from, address, amount, blocknumber)} |->
    Bind([d4 \in {so_AddPledgedBalance(d3, address, amount)} |->
    Bind([d5 \in {IF from = address THEN so_SetValidatorProxy(d4, address, newProxy) ELSE d4} |->
    Bind([d6 \in {so_AddValidatorExtension(d5, address, from, amount, blocknumber)} |->
        so_SetPledgedBlockNumber(d6, from, blocknumber)])])])])])])

\* StateDB.ResetMinerBecome
ResetMinerBecome(db, address) ==
    Bind([d1 \in {GetOrNewStakerStateObject(GetOrNewAccountStateObject(db, address),
                                   ValidatorStorageAddress)} |->
    Bind([d2 \in {so_ResetemoveValidator(d1, ValidatorStorageAddress, address)} |->
    Bind([proxy \in {Worm(d2, address).ValidatorProxy} |->
        IF Worm(d2, address).PledgedBalance < ValidatorBase
        THEN [db |-> d2, err |-> "", done |-> FALSE]
        ELSE IF /\ proxy # ZeroAddress
                /\ ValidatorListExist(Staker(d2, ValidatorStorageAddress).Validators, proxy)
             THEN [db |-> d2, err |-> "cannot have the same proxy", done |-> FALSE]
             ELSE Bind([c \in {GetValidatorCoefficient(d2, address)} |->
                  Bind([d3 \in {IF c.val = 0
                       THEN AddValidatorCoefficient(c.db, address, VALIDATOR_COEFFICIENT)
                       ELSE c.db} |->
                      [db |-> so_SetValidatorAmount(d3, ValidatorStorageAddress, address,
                                                    Worm(d3, address).PledgedBalance, proxy),
                       err |-> "", done |-> TRUE]])])])])])

\* a withdrawal that leaves the delegations of the validator in place
RevocateAllStakersSkipped(db, addr, blocknumber) ==
    GetOrNewStakerStateObject(GetOrNewAccountStateObject(db, addr), ValidatorStorageAddress)

\* StateDB.RevocateAllStakers: the loop over the delegators of addr
RECURSIVE revocateStakers(_, _, _)
revocateStakers(db, addr, stakers) ==
    IF stakers = << >> THEN db
    ELSE Bind([staker \in {Head(stakers)} |->
         Bind([d0 \in {GetOrNewAccountStateObject(db, staker.Addr)} |->
         Bind([d1 \in {so_RemoveStakerPledge(d0, staker.Addr, addr, staker.Balance)} |->
         Bind([d2 \in {so_AddBalance(d1, staker.Addr, staker.Balance)} |->
         Bind([d3 \in {so_SubPledgedBalance(d2, addr, staker.Balance)} |->
         Bind([d4 \in {so_RemoveValidator(d3, ValidatorStorageAddress, addr, staker.Balance)} |->
             revocateStakers(d4, addr, Tail(stakers))])])])])])])

\* StateDB.RevocateAllStakers
RevocateAllStakers(db, addr, blocknumber) ==
    Bind([d0 \in {GetOrNewAccountStateObject(db, addr)} |->
    Bind([d1 \in {GetOrNewStakerStateObject(d0, ValidatorStorageAddress)} |->
    Bind([d2 \in {revocateStakers(d1, addr, Worm(d0, addr).ValidatorExtension)} |->
        so_SetValidatorExtension(d2, addr, << >>)])])])

punishErbRecoverUnit(coefficient) ==
    IF coefficient # 0 THEN (VALIDATOR_COEFFICIENT - coefficient) * recoverUnit ELSE 0

\* NewCancelStakerPledge: the amount forfeited by a self-pledging validator
punishErb(coefficient) ==
    IF coefficient # 0 THEN (VALIDATOR_COEFFICIENT - coefficient) * coebaseErb ELSE 0

\* NewCancelStakerPledge: the removal of the pledge records common to all branches
removePledge(db, from, address, amount) ==
    Bind([d0 \in {so_RemoveStakerPledge(db, from, address, amount)} |->
    Bind([d1 \in {so_RemoveValidatorExtension(d0, address, from, amount)} |->
    Bind([d2 \in {so_SubPledgedBalance(d1, address, amount)} |->
        so_RemoveValidator(d2, ValidatorStorageAddress, address, amount)])])])

\* StateDB.NewCancelStakerPledge
NewCancelStakerPledge(db, from, address, amount, blocknumber) ==
    Bind([t1 \in {GetOrNewAccountStateObject(GetOrNewAccountStateObject(db, address), from)} |->
    Bind([d0 \in {GetOrNewStakerStateObject(t1, ValidatorStorageAddress)} |->
    Bind([punish \in {punishErb(Worm(d0, address).Coefficient)} |->
        IF from = address
        THEN IF punish > 0 /\ amount < punish
             THEN [db |-> d0, err |-> "cancel pledge for insufficient punish amount"]
             ELSE Bind([paid \in {IF punish > 0
                       THEN Bind([a \in {so_AddBalance(d0, from, amount - punish)} |->
                            Bind([z \in {GetOrNewAccountStateObject(a, ZeroAddress)} |->
                            Bind([b \in {so_AddBalance(z, ZeroAddress, punish)} |->
                                so_SetCoefficient(b, from, VALIDATOR_COEFFICIENT)])])])
                       ELSE so_AddBalance(d0, from, amount)} |->
                  Bind([removed \in {removePledge(paid, from, address, amount)} |->
                      IF GetBalanceOf(Worm(paid, from).StakerExtension, from) = amount
                      THEN [db |-> RevocateAllStakers(removed, address, blocknumber),
                            err |-> ""]
                      ELSE [db |-> removed, err |-> ""]])])
        ELSE [db |-> removePledge(so_AddBalance(d0, from, amount), from, address, amount),
              err |-> ""]])])])

\* StateDB.AddRefund
AddRefund(db, gas) ==
    [append(db, [kind |-> "refundChange", prev |-> db.refund])
        EXCEPT !.refund = @ + gas]

\* StateDB.clearJournalAndRefund: the refund counter is reset together with
\* a non-empty journal only; the revisions are always dropped
clearJournalAndRefund(db) ==
    [db EXCEPT !.journal = << >>,
               !.refund = IF Len(db.journal) > 0 THEN 0 ELSE @,
               !.validRevisions = << >>]

\* StateDB.Finalise
Finalise(db, deleteEmptyObjects) ==
    Bind([dirty \in {dirties(db) \cap DOMAIN db.stateObjects} |->
        clearJournalAndRefund(
            [db EXCEPT !.stateObjects =
                           [a \in DOMAIN db.stateObjects |->
                               IF /\ a \in dirty
                                  /\ \/ db.stateObjects[a].suicided
                                     \/ deleteEmptyObjects /\ empty(db.stateObjects[a])
                               THEN [db.stateObjects[a] EXCEPT !.deleted = TRUE]
                               ELSE db.stateObjects[a]],
                       !.stateObjectsPending = @ \cup dirty,
                       !.stateObjectsDirty = @ \cup dirty])])

\* the pending objects whose trie write fails (TryUpdate or TryDelete
\* returns an error in updateStateObject or deleteStateObject)
failing(db) == db.stateObjectsPending \cap db.trieFaults

\* the error passed to setError for a pending object whose write fails
flushError(db, a) ==
    [fn |-> IF db.stateObjects[a].deleted THEN "deleteStateObject"
            ELSE "updateStateObject",
     addr |-> a]

\* StateDB.IntermediateRoot: Finalise, then deleteStateObject or
\* updateStateObject for every pending object.  An empty Extra is encoded as
\* the empty string whether it is nil or allocated.  A write that fails
\* leaves the trie as it is and calls setError; the pending set is ranged
\* over in map order, and first is the failing object that order reaches
\* first.
IntermediateRootFrom(db, deleteEmptyObjects, first) ==
    Bind([d \in {Finalise(db, deleteEmptyObjects)} |->
    Bind([pending \in {d.stateObjectsPending \ d.trieFaults} |->
    Bind([gone \in {{a \in pending : d.stateObjects[a].deleted}} |->
        [(IF failing(d) = {} THEN d
          ELSE setError(d, flushError(d, IF first \in failing(d) THEN first
                                         ELSE CHOOSE a \in failing(d) : TRUE)))
            EXCEPT !.trie = [a \in ((DOMAIN d.trie) \cup pending) \ gone |->
                               IF a \in pending
                               THEN [d.stateObjects[a].data EXCEPT !.Extra = Nil]
                               ELSE d.trie[a]],
                   !.stateObjectsPending = {}]])])])

IntermediateRoot(db, deleteEmptyObjects) ==
    IntermediateRootFrom(db, deleteEmptyObjects, ZeroAddress)

\* StateDB.Commit: refuses to start when an error is already remembered;
\* otherwise flushes through IntermediateRoot, forgets the dirty set and
\* returns the error of the account trie's own Commit (commitErr).  Contract
\* storage and code are not part of the model.
Commit(db, deleteEmptyObjects, first, commitErr) ==
    IF db.dbErr # Nil
    THEN [db |-> db, err |-> Some([fn |-> "Commit", cause |-> Deref(db.dbErr)])]
    ELSE [db |-> [IntermediateRootFrom(db, deleteEmptyObjects, first)
                     EXCEPT !.stateObjectsDirty = {}],
          err |-> commitErr]

\* the records an account refers to through a pointer
PointerFields == {"Worm", "Csbt", "Staker"}

\* a copy of a state object that takes over the pointers of the original:
\* every record the original has is common to both
shallowCopy(obj) ==
    [obj |-> [newObject(obj.data) EXCEPT !.suicided = obj.suicided, !.deleted = obj.deleted],
     common |-> {f \in PointerFields : obj.data[f] # Nil}]

\* stateObject.deepCopy: newObject on the data, then the flags.  newObject
\* calls DeepCopy on each of Worm, Csbt and Staker, and each DeepCopy
\* allocates every nested list and amount anew: the copy has no record in
\* common with the original.
deepCopy(obj) ==
    [obj |-> [newObject(obj.data) EXCEPT !.suicided = obj.suicided, !.deleted = obj.deleted],
     common |-> {}]

\* the addresses whose objects Copy carries over
copied(db) ==
    (dirties(db) \cap DOMAIN db.stateObjects) \cup db.stateObjectsPending
        \cup db.stateObjectsDirty

\* StateDB.Copy: the same database and trie content, the refund counter, a
\* new journal, and a deep copy of every object that is in the journal's
\* dirty set, pending or dirty.  Revisions, the revision counter and the
\* remembered error are not copied.
Copy(db) ==
    Bind([dirty \in {dirties(db) \cap DOMAIN db.stateObjects} |->
        [stateObjects |-> [a \in copied(db) |-> deepCopy(db.stateObjects[a]).obj],
         stateObjectsPending |-> dirty \cup db.stateObjectsPending,
         stateObjectsDirty |-> dirty \cup db.stateObjectsDirty,
         trie |-> db.trie, trieFaults |-> db.trieFaults, undecodable |-> db.undecodable,
         refund |-> db.refund, dbErr |-> Nil,
         journal |-> << >>, validRevisions |-> << >>, nextRevisionId |-> 0]])

\* the records (address, field) the objects of Copy's result have in common
\* with the objects of its argument
commonRecords(db) ==
    {r \in copied(db) \X PointerFields : r[2] \in deepCopy(db.stateObjects[r[1]]).common}

\* a record of x that a call changed in place (x before, y after the call):
\* the object and the record were there before and are there after
inPlace(x, y, r) ==
    /\ r[1] \in DOMAIN x.stateObjects /\ r[1] \in DOMAIN y.stateObjects
    /\ x.stateObjects[r[1]].data[r[2]] # Nil
    /\ y.stateObjects[r[1]].data[r[2]] # Nil

\* what a call on one instance (x before, y after) does to the instance z
\* that has the records common with it: a record changed in place is changed
\* for both
seenBy(x, y, z, common) ==
    [z EXCEPT !.stateObjects =
        [a \in DOMAIN z.stateObjects |->
            [z.stateObjects[a] EXCEPT !.data =
                [f \in DOMAIN z.stateObjects[a].data |->
                    IF <<a, f>> \in common /\ inPlace(x, y, <<a, f>>)
                    THEN y.stateObjects[a].data[f]
                    ELSE z.stateObjects[a].data[f]]]]]

\* state.New on the root computed by IntermediateRoot (worker.makeCurrent)
StateAt(db) ==
    [stateObjects |-> << >>, stateObjectsPending |-> {}, stateObjectsDirty |-> {},
     trie |-> db.trie, trieFaults |-> db.trieFaults, undecodable |-> db.undecodable,
     refund |-> 0, dbErr |-> Nil,
     journal |-> << >>, validRevisions |-> << >>, nextRevisionId |-> 0]

\* GetRewardAmount: no deflation before the first reduction period
GetRewardAmount(blocknumber, initamount) ==
    IF blocknumber \div ReduceRewardPeriod = 0 THEN initamount ELSE 0

\* floor(a * b / c) as computed by big.Int Mul and Div, without overflowing
\* the integers of the model checker: a * b = (a \div 2) * b * 2 + (a % 2) * b
RECURSIVE MulDivRem(_, _, _)
MulDivRem(a, b, c) ==
    IF a = 0 THEN [q |-> 0, r |-> 0]
    ELSE Bind([h \in {MulDivRem(a \div 2, b, c)} |->
         Bind([r2 \in {2 * h.r + (IF a % 2 = 1 THEN b % c ELSE 0)} |->
         Bind([q2 \in {2 * h.q + (IF a % 2 = 1 THEN b \div c ELSE 0)} |->
             [q |-> q2 + r2 \div c, r |-> r2 % c]])])])

MulDiv(a, b, c) == MulDivRem(a, b, c).q

\* StateDB.CreateNFTByOfficial16: the block reward of every validator
RECURSIVE CreateNFTByOfficial16(_, _, _)
CreateNFTByOfficial16(db, validators, blocknumber) ==
    IF validators = << >> THEN GetOrNewStakerStateObject(db, MintDeepStorageAddress)
    ELSE Bind([owner \in {Head(validators)} |->
             CreateNFTByOfficial16(
                 so_AddBalance(GetOrNewAccountStateObject(db, owner), owner,
                               GetRewardAmount(blocknumber, DREBlockReward)),
                 Tail(validators), blocknumber)])

\* DistributeRewardsToStakers: the loop over the delegators of one validator;
\* returns the database and the sum actually paid
RECURSIVE payStakers(_, _, _, _, _)
payStakers(db, owner, stakers, sumStakerReward, sumStakerBalance) ==
    IF stakers = << >> THEN [db |-> db, paid |-> 0]
    ELSE Bind([staker \in {Head(stakers)} |->
             IF staker.Addr # owner
             THEN Bind([stakerReward \in {MulDiv(sumStakerReward, staker.Balance,
                                                  sumStakerBalance)} |->
                  Bind([rest \in {payStakers(
                                     so_AddBalance(GetOrNewAccountStateObject(db, staker.Addr),
                                                   staker.Addr, stakerReward),
                                     owner, Tail(stakers), sumStakerReward,
                                     sumStakerBalance)} |->
                      [db |-> rest.db, paid |-> stakerReward + rest.paid]])])
             ELSE payStakers(db, owner, Tail(stakers), sumStakerReward, sumStakerBalance)])

\* a distribution that pays the delegators without taking their shares
\* from the validator
RECURSIVE DistributeRewardsNoDebit(_, _, _)
DistributeRewardsNoDebit(db, validators, blocknumber) ==
    IF validators = << >> THEN db
    ELSE Bind([owner \in {Head(validators)} |->
         Bind([sumStakerReward \in {(GetRewardAmount(blocknumber, DREBlockReward)
                   * (100 - PercentageValidatorReward)) \div 100} |->
         Bind([d \in {GetOrNewAccountStateObject(db, owner)} |->
         Bind([stakerList \in {Worm(d, owner).ValidatorExtension} |->
         Bind([r \in {payStakers(d, owner, stakerList, sumStakerReward,
                         GetAllBalance(stakerList) - GetBalanceOf(stakerList, owner))} |->
             DistributeRewardsNoDebit(r.db, Tail(validators), blocknumber)])])])])])

\* StateDB.DistributeRewardsToStakers
RECURSIVE DistributeRewardsToStakers(_, _, _)
DistributeRewardsToStakers(db, validators, blocknumber) ==
    IF validators = << >> THEN db
    ELSE Bind([owner \in {Head(validators)} |->
         Bind([sumStakerReward \in {(GetRewardAmount(blocknumber, DREBlockReward)
                   * (100 - PercentageValidatorReward)) \div 100} |->
         Bind([d \in {GetOrNewAccountStateObject(db, owner)} |->
         Bind([stakerList \in {Worm(d, owner).ValidatorExtension} |->
         Bind([r \in {payStakers(d, owner, stakerList, sumStakerReward,
                         GetAllBalance(stakerList) - GetBalanceOf(stakerList, owner))} |->
             DistributeRewardsToStakers(so_SubBalance(r.db, owner, r.paid),
                                        Tail(validators), blocknumber)])])])])])

\* StateDB.PunishEvilValidators and the coefficient loops of Finalize
RECURSIVE subCoefficients(_, _, _)
subCoefficients(db, addrs, coe) ==
    IF addrs = << >> THEN db
    ELSE subCoefficients(SubValidatorCoefficient(db, Head(addrs), coe), Tail(addrs), coe)

RECURSIVE addCoefficients(_, _, _)
addCoefficients(db, addrs, coe) ==
    IF addrs = << >> THEN db
    ELSE addCoefficients(AddValidatorCoefficient(db, Head(addrs), coe), Tail(addrs), coe)

PunishEvilValidators(db, evilValidators) ==
    subCoefficients(db, evilValidators, DEFAULT_VALIDATOR_COEFFICIENT)

\* Engine.Finalize.  An empty block (zero coinbase) lowers the coefficient of
\* the validators that should have proposed, raises the coefficient of every
\* voter but the first and rewards the validators of the header; a normal
\* block raises the coefficient of the validators of the header, punishes the
\* evil validators and rewards the signers of the previous block.
Finalize(db, emptyBlock, validatorAddr, others, rewarded, number) ==
    Bind([d1 \in {IF emptyBlock
         THEN addCoefficients(subCoefficients(db, others, 20), Tail(validatorAddr), 70)
         ELSE PunishEvilValidators(addCoefficients(db, validatorAddr, 20), others)} |->
    Bind([d2 \in {CreateNFTByOfficial16(d1, rewarded, number)} |->
    Bind([d3 \in {DistributeRewardsToStakers(d2, rewarded, number)} |->
    Bind([d4 \in {GetOrNewStakerStateObject(d3, ValidatorStorageAddress)} |->
        IntermediateRoot(so_SetValidators(d4, ValidatorStorageAddress,
                                          Staker(d4, ValidatorStorageAddress).Validators),
                         TRUE)])])])])

----------------------------------------------------------------------------
(* The execution bridge (core/evm.go, core/vm/evm.go) *)

CanTransferAlways(db, addr, amount) == TRUE

\* CanTransfer
CanTransfer(db, addr, amount) == GetBalance(db, addr) >= amount

TransferNoCredit(db, sender, recipient, amount) == SubBalance(db, sender, amount)

\* Transfer
Transfer(db, sender, recipient, amount) ==
    AddBalance(SubBalance(db, sender, amount), recipient, amount)

\* VerifyCSBTOwner
VerifyCSBTOwner(db, nftAddr, owner) ==
    Bind([r \in {GetNFTOwner16(db, nftAddr)} |-> [db |-> r.db, val |-> r.val = owner]])

\* VerifyStakerPledgedBalance
VerifyStakerPledgedBalance(db, from, addr, amount) ==
    Bind([r \in {GetStakerPledgedBalance(db, from, addr)} |->
         [db |-> r.db, val |-> r.val >= amount]])

\* RecoverValidatorCoefficient
RecoverValidatorCoefficient(db, address) ==
    Bind([b \in {GetPledgedBalance(db, address)} |->
        IF b.val <= 0 THEN [db |-> b.db, err |-> "not a validator"]
        ELSE Bind([c \in {GetValidatorCoefficient(b.db, address)} |->
             Bind([needRecoverCoe \in {VALIDATOR_COEFFICIENT - c.val} |->
             Bind([recoverAmount \in {needRecoverCoe * recoverUnit} |->
                 IF c.val = 0 THEN [db |-> c.db, err |-> "Get validator coefficient error"]
                 ELSE IF needRecoverCoe > 0
                      THEN IF GetBalance(c.db, address) < recoverAmount
                           THEN [db |-> c.db, err |-> "insufficient balance for transfer"]
                           ELSE [db |-> AddValidatorCoefficient(
                                            AddBalance(SubBalance(c.db, address, recoverAmount),
                                                       ZeroAddress, recoverAmount),
                                            address, needRecoverCoe),
                                 err |-> ""]
                      ELSE [db |-> c.db, err |-> ""]])])])])

NoReset == [called |-> FALSE]

\* EVM.HandleCSBT.  Besides the database and the error, the result records
\* the databases before and after the call of ResetMinerBecome (type 3).
HandleCSBT(db, caller, addr, w, value, number) ==
    CASE w.Type = 1 ->
            Bind([v \in {VerifyCSBTOwner(db, w.CSBTAddress, caller)} |->
                IF ~v.val THEN [db |-> v.db, err |-> "ErrNotOwner", reset |-> NoReset]
                ELSE [db |-> GetOrNewStakerStateObject(v.db, StakerStorageAddress),
                      err |-> "ErrNotCreator", reset |-> NoReset]])
      [] w.Type = 2 ->
            Bind([v \in {VerifyCSBTOwner(db, w.CSBTAddress, addr)} |->
                IF v.val
                THEN [db |-> Transfer(v.db, caller, addr, value), err |-> "", reset |-> NoReset]
                ELSE [db |-> v.db, err |-> "ErrNotOwner", reset |-> NoReset]])
      [] w.Type = 3 ->
            Bind([p \in {GetStakerPledged(db, caller, addr)} |->
                IF p.val.Balance < StakerBase /\ value < StakerBase
                THEN [db |-> p.db, err |-> "ErrNotMoreThan100ERB", reset |-> NoReset]
                ELSE IF ~CanTransfer(p.db, caller, value)
                     THEN [db |-> p.db, err |-> "ErrInsufficientBalance", reset |-> NoReset]
                     ELSE Bind([d0 \in {StakerPledge(p.db, caller, addr, value, number,
                                                     w.ProxyAddress)} |->
                          Bind([r \in {ResetMinerBecome(d0, addr)} |->
                              [db |-> r.db, err |-> r.err,
                               reset |-> [called |-> TRUE, err |-> r.err, done |-> r.done,
                                          before |-> d0, after |-> r.db]]])])])
      [] w.Type = 4 ->
            Bind([p \in {GetStakerPledged(db, caller, addr)} |->
                IF p.val.Balance # value /\ StakerBase > p.val.Balance - value
                THEN [db |-> p.db, err |-> "the after revocation is less than 700ERB",
                      reset |-> NoReset]
                ELSE IF CancelDayPledgedInterval <= number - p.val.BlockNumber
                     THEN Bind([r \in {NewCancelStakerPledge(p.db, caller, addr, value, number)} |->
                               [db |-> r.db, err |-> r.err, reset |-> NoReset]])
                     ELSE [db |-> p.db, err |-> "ErrTooCloseToCancel", reset |-> NoReset]])
      [] w.Type = 5 ->
            Bind([r \in {RecoverValidatorCoefficient(db, caller)} |->
                 [db |-> r.db, err |-> r.err, reset |-> NoReset]])
      [] OTHER -> [db |-> db, err |-> "ErrNotExistNFTType", reset |-> NoReset]

\* EVM.Call for an account without code.  w.Type = 0 is a plain value transfer.
Call(db, caller, addr, w, value, number) ==
    Bind([nftTransaction \in {w.Type # 0} |->
    Bind([pb \in {IF nftTransaction /\ w.Type = 4
         THEN GetStakerPledgedBalance(db, caller, addr)
         ELSE [db |-> db, val |-> 0]} |->
    Bind([ok4 \in {IF nftTransaction /\ w.Type = 4 /\ pb.val # value /\ value > 0
         THEN VerifyStakerPledgedBalance(pb.db, caller, addr, value + StakerBase)
         ELSE [db |-> pb.db, val |-> TRUE]} |->
        IF ~ok4.val
        THEN [db |-> ok4.db, err |-> "ErrInsufficientBalance", reset |-> NoReset]
        ELSE IF ~(nftTransaction /\ w.Type = 4) /\ value # 0 /\ ~CanTransfer(db, caller, value)
        THEN [db |-> db, err |-> "ErrInsufficientBalance", reset |-> NoReset]
        ELSE Bind([s \in {Snapshot(pb.db).db} |->
             Bind([d0 \in {IF ~Exist(s, addr) THEN CreateAccount(s, addr) ELSE s} |->
                 IF nftTransaction
                 THEN HandleCSBT(d0, caller, addr, w, value, number)
                 ELSE [db |-> Transfer(d0, caller, addr, value), err |-> "",
                       reset |-> NoReset]])])])])])

\* core.ApplyTransaction: the nonce of the sender is advanced, the message is
\* executed, an execution error is returned to the caller, and a transaction
\* that succeeded is finalised
ApplyTransaction(db, tx, number) ==
    Bind([r \in {Call(SetNonce(db, tx.from, GetNonce(db, tx.from) + 1),
              tx.from, tx.to, tx.w, tx.value, number)} |->
        IF r.err # "" THEN r
        ELSE [r EXCEPT !.db = Finalise(r.db, TRUE)]])

\* worker.commitTransaction
commitTransaction(db, tx, number) ==
    Bind([snap \in {Snapshot(db)} |->
    Bind([r \in {ApplyTransaction(snap.db, tx, number)} |->
        IF r.err # "" THEN [r EXCEPT !.db = RevertToSnapshot(r.db, snap.id)]
        ELSE r])])

----------------------------------------------------------------------------
(* Bounds and input sets *)

MaxSteps == 3
MaxJournalSteps == 5

Users == {101, 102}
NftAddrs == {201}
Addresses == {ZeroAddress, MintDeepStorageAddress, ValidatorStorageAddress,
              StakerStorageAddress} \cup Users \cup NftAddrs \cup {103}

InitialBalance == ValidatorBase + 2 * StakerBase

\* the accounts of the opened root: every user funded through AddBalance
GenesisTrie ==
    [a \in Users |-> [EmptyAccount EXCEPT !.Balance = InitialBalance,
                                          !.Worm = Some(EmptyWorm)]]

\* state.New: a database opened on the root, nothing loaded yet; faults is
\* the set of keys whose trie nodes cannot be read or written, undecodable
\* the set of keys whose stored record does not decode
NewStateDBOn(faults, undecodable) ==
    [stateObjects |-> << >>, stateObjectsPending |-> {}, stateObjectsDirty |-> {},
     trie |-> GenesisTrie, trieFaults |-> faults, undecodable |-> undecodable,
     refund |-> 0, dbErr |-> Nil,
     journal |-> << >>, validRevisions |-> << >>, nextRevisionId |-> 0]

NewStateDB == NewStateDBOn({}, {})

NoOp == [op |-> "none"]

\* newWorker: no pending task, nothing written, announced or tracked; the
\* database holds no block of the heights the worker builds on
NoResults ==
    [pendingTasks |-> {}, chain |-> {}, written |-> << >>, mined |-> << >>,
     unconfirmed |-> << >>]

\* no work cycle has started
NoWork == [phase |-> "idle"]

----------------------------------------------------------------------------
(* The account state a client of the database can observe *)

\* the consensus fields of an account (what is encoded into the trie)
accountFields(data) ==
    [Nonce |-> data.Nonce, Balance |-> data.Balance, Worm |-> data.Worm,
     Csbt |-> data.Csbt, Staker |-> data.Staker]

\* the account at an address: nil if it does not exist
accountAt(db, a) ==
    IF a \in DOMAIN db.stateObjects
    THEN IF db.stateObjects[a].deleted THEN Nil
         ELSE Some(accountFields(db.stateObjects[a].data))
    ELSE IF a \in DOMAIN db.trie /\ a \notin db.trieFaults \cup db.undecodable
         THEN Some(accountFields(db.trie[a]))
         ELSE Nil

AccountState(db) == [a \in Addresses |-> accountAt(db, a)]

----------------------------------------------------------------------------
(* Initial state *)

InitState ==
    /\ state = NewStateDB
    /\ blockNumber = 1
    /\ saved = << >>
    /\ last = NoOp
    /\ registered = {}
    /\ steps = 0
    /\ recorded = Nil
    /\ other = Nil
    /\ shared = {}
    /\ txpool = {}
    /\ emptyBlocks = << >>
    /\ results = NoResults
    /\ work = NoWork

\* the goroutines started by newWorker, and the vote handler, which emptyLoop
\* starts (it is "off" until then)
Goroutines == {"emptyLoop", "newWorkLoop", "mainLoop", "taskLoop", "handleEvents"}

InitWorker(p, c) ==
    /\ proofs = << >>
    /\ head = 0
    /\ isEmpty = FALSE
    /\ targetWeightBalance = 0
    /\ cacheHeight = 0
    /\ resultCh = << >>
    /\ sealed = {}
    /\ coeff = c
    /\ cstakers = Nil
    /\ pool = p
    /\ events = {}
    /\ voteIndex = 0
    /\ running = FALSE
    /\ totalCondition = 0
    /\ emptyTimer = TRUE
    /\ pc = [g \in Goroutines |-> IF g = "handleEvents" THEN "off" ELSE "select"]
    /\ resetEmptyCh = 0
    /\ chainHeadCh = << >>
    /\ taskCh = Nil
    /\ stopCh = Nil
    /\ valiTotal = 0
    /\ lock = FALSE

Init == InitState /\ InitWorker([Validators |-> << >>], << >>)

----------------------------------------------------------------------------
(* Specification of the state database used directly: every action is one  *)
(* call of a StateDB method.                                               *)

jstep(db, op) ==
    /\ steps < MaxJournalSteps
    /\ steps' = steps + 1
    /\ state' = db
    /\ last' = op
    /\ UNCHANGED <<blockNumber, saved, registered>>
    /\ UNCHANGED voteVars
    /\ UNCHANGED loopVars
    /\ UNCHANGED instanceVars
    /\ UNCHANGED blockVars
    /\ UNCHANGED minerVars

DbAddBalance ==
    \E a \in {101} \cup NftAddrs :
        jstep(AddBalance(state, a, 1), [op |-> "AddBalance"])

DbSetNonce ==
    \E a \in {101} :
        jstep(SetNonce(state, a, GetNonce(state, a) + 1), [op |-> "SetNonce"])

DbChangeNFTOwner ==
    \E n \in NftAddrs \cup {102} :
        jstep(ChangeNFTOwner(state, n, 101), [op |-> "ChangeNFTOwner"])

DbStakerPledge ==
    \E from \in {101} : \E amount \in {ValidatorBase} :
        /\ GetBalance(state, from) >= amount
        /\ jstep(StakerPledge(state, from, from, amount, blockNumber, ZeroAddress),
                 [op |-> "StakerPledge"])

DbResetMinerBecome ==
    \E a \in {101} :
        jstep(ResetMinerBecome(state, a).db, [op |-> "ResetMinerBecome"])

DbSubValidatorCoefficient ==
    \E a \in {101} :
        jstep(SubValidatorCoefficient(state, a, 20), [op |-> "SubValidatorCoefficient"])

DbNewCancelStakerPledge ==
    /\ steps < MaxJournalSteps
    /\ \E from \in {101} :
        \E pledged \in {GetStakerPledgedBalance(state, from, from).val} :
            /\ pledged > 0
            /\ jstep(NewCancelStakerPledge(state, from, from, pledged, blockNumber).db,
                     [op |-> "NewCancelStakerPledge"])

DbSnapshot ==
    /\ steps < MaxJournalSteps
    /\ \E r \in {Snapshot(state)} :
        /\ steps' = steps + 1
        /\ state' = r.db
        /\ saved' = [i \in (DOMAIN saved) \cup {r.id} |->
                         IF i = r.id THEN AccountState(r.db) ELSE saved[i]]
        /\ last' = [op |-> "Snapshot", id |-> r.id]
        /\ UNCHANGED <<blockNumber, registered>>
        /\ UNCHANGED voteVars
        /\ UNCHANGED loopVars
        /\ UNCHANGED instanceVars
        /\ UNCHANGED blockVars
        /\ UNCHANGED minerVars

DbRevertToSnapshot ==
    \E revid \in 0..(state.nextRevisionId - 1) :
        /\ validRevision(state, revid)
        /\ jstep(RevertToSnapshot(state, revid),
                 [op |-> "RevertToSnapshot", id |-> revid,
                  entries |-> Len(state.journal), revisions |-> Len(state.validRevisions)])

NextDb ==
    \/ DbAddBalance
    \/ DbSetNonce
    \/ DbChangeNFTOwner
    \/ DbStakerPledge
    \/ DbResetMinerBecome
    \/ DbSubValidatorCoefficient
    \/ DbNewCancelStakerPledge
    \/ DbSnapshot
    \/ DbRevertToSnapshot

SpecDb == Init /\ [][NextDb]_vars

----------------------------------------------------------------------------
(* Specification of one StateDB instance through its life: journalled      *)
(* changes, snapshots and reverts, Finalise, Copy and Commit, on a         *)
(* database whose trie nodes can become unreadable and whose stored        *)
(* records may not decode.                                                 *)

MaxLifeSteps == 5

LifeAddrs == {101, 102}

\* RevertToSnapshot panicked: the process is gone
aborted == last.op = "panic"

lrec(db, op, rec) ==
    /\ steps < MaxLifeSteps
    /\ ~aborted
    /\ steps' = steps + 1
    /\ state' = db
    /\ last' = op
    /\ recorded' = rec
    /\ UNCHANGED <<blockNumber, saved, registered, other, shared>>
    /\ UNCHANGED voteVars
    /\ UNCHANGED loopVars
    /\ UNCHANGED blockVars
    /\ UNCHANGED minerVars

lstep(db, op) == lrec(db, op, IF recorded = Nil THEN db.dbErr ELSE recorded)

LifeAddBalance ==
    \E a \in LifeAddrs :
        lstep(AddBalance(state, a, 1), [op |-> "AddBalance", addr |-> a])

LifeAddRefund == lstep(AddRefund(state, 1), [op |-> "AddRefund"])

\* Exist: one retrieval of a state object
LifeExist ==
    \E a \in LifeAddrs :
        lstep(getDeletedStateObject(state, a),
              [op |-> "Exist", addr |-> a, live |-> a \in DOMAIN state.stateObjects])

LifeSnapshot ==
    lstep(Snapshot(state).db, [op |-> "Snapshot", id |-> state.nextRevisionId])

\* RevertToSnapshot with any revision id: a valid one is reverted to, any
\* other one panics before anything is changed
LifeRevertToSnapshot ==
    \E revid \in 0..state.nextRevisionId :
        IF validRevision(state, revid)
        THEN lstep(RevertToSnapshot(state, revid), [op |-> "RevertToSnapshot", id |-> revid])
        ELSE lstep(state, [op |-> "panic", fn |-> "RevertToSnapshot", id |-> revid,
                           allocated |-> revid < state.nextRevisionId,
                           finalised |-> state.validRevisions = << >>])

LifeFinalise ==
    lstep(Finalise(state, TRUE),
          [op |-> "Finalise", entries |-> Len(state.journal), refund |-> state.refund])

\* GetAccountInfo: the account data of the object, which is created when
\* there is none
LifeGetAccountInfo ==
    \E a \in LifeAddrs :
        lstep(GetAccountInfo(state, a), [op |-> "GetAccountInfo", addr |-> a])

\* Copy, and the work goes on with the copy
LifeCopy == lrec(Copy(state), [op |-> "Copy", refund |-> state.refund], Nil)

LifeCommit ==
    /\ steps < MaxLifeSteps
    /\ \E first \in LifeAddrs : \E commitErr \in {Nil, Some([fn |-> "trie.Commit"])} :
        \E r \in {Commit(state, TRUE, first, commitErr)} :
            lstep(r.db, [op |-> "Commit", err |-> r.err, before |-> state.dbErr])

\* the nodes on the path of a key are lost from the node database
LifeTrieFault ==
    \E a \in LifeAddrs :
        /\ a \notin state.trieFaults
        /\ lstep([state EXCEPT !.trieFaults = @ \cup {a}], [op |-> "fault", addr |-> a])

NextLife ==
    \/ LifeAddBalance
    \/ LifeAddRefund
    \/ LifeExist
    \/ LifeSnapshot
    \/ LifeRevertToSnapshot
    \/ LifeFinalise
    \/ LifeGetAccountInfo
    \/ LifeCopy
    \/ LifeCommit
    \/ LifeTrieFault

InitLife ==
    /\ \E u \in SUBSET {102} : state = NewStateDBOn({}, u)
    /\ blockNumber = 1
    /\ saved = << >>
    /\ last = NoOp
    /\ registered = {}
    /\ steps = 0
    /\ recorded = Nil
    /\ other = Nil
    /\ shared = {}
    /\ txpool = {}
    /\ emptyBlocks = << >>
    /\ results = NoResults
    /\ work = NoWork
    /\ InitWorker([Validators |-> << >>], << >>)

SpecLife == InitLife /\ [][NextLife]_vars

----------------------------------------------------------------------------
(* Specification of two StateDB instances: s (state) and, after            *)
(* c = s.Copy(), c (other).  Every action after the Copy is one call on    *)
(* one of the two.                                                         *)

MaxCopySteps == 5

\* the instances a call can be made on
Sides == IF other = Nil THEN {"s"} ELSE {"s", "c"}

instance(side) == IF side = "s" THEN state ELSE Deref(other)

\* a call on the instance of one side that leaves it as db
cstep(side, db, op) ==
    /\ steps < MaxCopySteps
    /\ steps' = steps + 1
    /\ last' = [op |-> op, side |-> side]
    /\ IF side = "s"
       THEN /\ state' = db
            /\ other' = IF other = Nil THEN Nil
                        ELSE Some(seenBy(state, db, Deref(other), shared))
       ELSE /\ other' = Some(db)
            /\ state' = seenBy(Deref(other), db, state, shared)
    /\ shared' = {r \in shared : inPlace(instance(side), db, r)}
    /\ UNCHANGED <<blockNumber, saved, registered, recorded>>
    /\ UNCHANGED voteVars
    /\ UNCHANGED loopVars
    /\ UNCHANGED blockVars
    /\ UNCHANGED minerVars

CopyAddBalance ==
    \E side \in Sides :
        cstep(side, AddBalance(instance(side), 101, 1), "AddBalance")

CopyStakerPledge ==
    \E side \in Sides :
        /\ GetBalance(instance(side), 101) >= ValidatorBase
        /\ cstep(side, StakerPledge(instance(side), 101, 101, ValidatorBase,
                                    blockNumber, ZeroAddress), "StakerPledge")

CopySubValidatorCoefficient ==
    \E side \in Sides :
        cstep(side, SubValidatorCoefficient(instance(side), 101, 20),
              "SubValidatorCoefficient")

CopyResetMinerBecome ==
    \E side \in Sides :
        cstep(side, ResetMinerBecome(instance(side), 101).db, "ResetMinerBecome")

CopyNewCancelStakerPledge ==
    /\ steps < MaxCopySteps
    /\ \E side \in Sides :
        \E pledged \in {GetStakerPledgedBalance(instance(side), 101, 101).val} :
            /\ pledged > 0
            /\ cstep(side, NewCancelStakerPledge(instance(side), 101, 101, pledged,
                                                 blockNumber).db,
                     "NewCancelStakerPledge")

CopySnapshot ==
    \E side \in Sides : cstep(side, Snapshot(instance(side)).db, "Snapshot")

CopyRevertToSnapshot ==
    \E side \in Sides : \E revid \in 0..(instance(side).nextRevisionId - 1) :
        /\ validRevision(instance(side), revid)
        /\ cstep(side, RevertToSnapshot(instance(side), revid), "RevertToSnapshot")

CopyFinalise ==
    \E side \in Sides : cstep(side, Finalise(instance(side), TRUE), "Finalise")

CopyIntermediateRoot ==
    \E side \in Sides :
        cstep(side, IntermediateRoot(instance(side), TRUE), "IntermediateRoot")

\* c = s.Copy()
CopyCopy ==
    /\ steps < MaxCopySteps
    /\ other = Nil
    /\ steps' = steps + 1
    /\ last' = [op |-> "Copy", side |-> "s"]
    /\ other' = Some(Copy(state))
    /\ shared' = commonRecords(state)
    /\ UNCHANGED <<state, blockNumber, saved, registered, recorded>>
    /\ UNCHANGED voteVars
    /\ UNCHANGED loopVars
    /\ UNCHANGED blockVars
    /\ UNCHANGED minerVars

NextCopy ==
    \/ CopyAddBalance
    \/ CopyStakerPledge
    \/ CopySubValidatorCoefficient
    \/ CopyResetMinerBecome
    \/ CopyNewCancelStakerPledge
    \/ CopySnapshot
    \/ CopyRevertToSnapshot
    \/ CopyFinalise
    \/ CopyIntermediateRoot
    \/ CopyCopy

SpecCopy == Init /\ [][NextCopy]_vars

----------------------------------------------------------------------------
(* Specification of block production: transactions are committed by the    *)
(* worker one at a time and the block is finalized by the engine.          *)

Tx(from, to, type, value, csbt, proxy) ==
    [from |-> from, to |-> to, value |-> value,
     w |-> [Type |-> type, CSBTAddress |-> csbt, ProxyAddress |-> proxy]]

\* plain transfers: to another user, to oneself, to an address without account
TransferTxs ==
    {Tx(p[1], p[2], 0, v, ZeroAddress, ZeroAddress) :
        p \in {<<101, 102>>, <<102, 102>>, <<101, 103>>}, v \in {baseErb, ValidatorBase}}

\* type 1 and type 2: the CSBT address is a fresh address or a user account
CsbtTxs ==
    {Tx(101, 102, 1, 0, c, ZeroAddress) : c \in {201, 102}}
        \cup {Tx(101, t, 2, baseErb, 201, ZeroAddress) : t \in {ZeroAddress, 102}}

\* type 3: self-pledges with and without proxy, and a delegation
PledgeTxs ==
    {Tx(101, 101, 3, v, ZeroAddress, x) : v \in {StakerBase, ValidatorBase}, x \in {ZeroAddress, 103, 102}}
        \cup {Tx(102, 102, 3, v, ZeroAddress, x) : v \in {StakerBase, ValidatorBase}, x \in {ZeroAddress, 103}}
        \cup {Tx(102, 101, 3, StakerBase, ZeroAddress, ZeroAddress)}

\* type 4: withdrawals of a part or of the whole of a pledge
CancelTxs ==
    {Tx(101, 101, 4, v, ZeroAddress, ZeroAddress) : v \in {StakerBase, ValidatorBase}}
        \cup {Tx(102, t, 4, v, ZeroAddress, ZeroAddress) : t \in Users, v \in {StakerBase}}
        \cup {Tx(102, 102, 4, ValidatorBase, ZeroAddress, ZeroAddress)}

\* type 5: coefficient recovery
RecoverTxs == {Tx(u, u, 5, 0, ZeroAddress, ZeroAddress) : u \in Users}

Txs == TransferTxs \cup CsbtTxs \cup PledgeTxs \cup CancelTxs \cup RecoverTxs

\* the validators of the registry, as the engine reads them from the state
registry(db) ==
    IF hasStateObject(db, ValidatorStorageAddress)
       /\ getDeletedStateObject(db, ValidatorStorageAddress)
              .stateObjects[ValidatorStorageAddress].data.Staker # Nil
    THEN Staker(getDeletedStateObject(db, ValidatorStorageAddress),
                ValidatorStorageAddress).Validators
    ELSE << >>

registryAddrs(db) == {registry(db)[i].Addr : i \in 1..Len(registry(db))}

\* sequences of at most one, respectively one or two, distinct elements
UpToOne(S) == {<< >>} \cup {<<a>> : a \in S}
OneOrTwo(S) == {<<a>> : a \in S} \cup {p \in S \X S : p[1] # p[2]}

\* observers of the account state: an account that does not exist, or has no
\* Worm record, has balance 0 and the empty Worm record
balanceOf(db, a) ==
    IF accountAt(db, a) = Nil THEN 0 ELSE Deref(accountAt(db, a)).Balance

wormOf(db, a) ==
    IF accountAt(db, a) = Nil \/ Deref(accountAt(db, a)).Worm = Nil THEN EmptyWorm
    ELSE Deref(Deref(accountAt(db, a)).Worm)

coefficientOf(db, a) == wormOf(db, a).Coefficient

RECURSIVE SumOver(_, _)
SumOver(f, S) ==
    IF S = {} THEN 0
    ELSE Bind([x \in {CHOOSE y \in S : TRUE} |-> f[x] + SumOver(f, S \ {x})])

totalBalance(db) == SumOver([a \in Addresses |-> balanceOf(db, a)], Addresses)

\* the view kept in the history of a call of ResetMinerBecome
resetView(reset) ==
    IF reset.called
    THEN [called |-> TRUE, err |-> reset.err,
          before |-> AccountState(reset.before), after |-> AccountState(reset.after)]
    ELSE NoReset

CommitTransaction ==
    /\ steps < MaxSteps
    /\ \E tx \in Txs :
        \E r \in {commitTransaction(state, tx, blockNumber)} :
            /\ steps' = steps + 1
            /\ state' = r.db
            /\ last' = [op |-> "commitTransaction", tx |-> tx, err |-> r.err,
                        reset |-> resetView(r.reset),
                        wasValidator |-> tx.from \in registryAddrs(state),
                        coe |-> coefficientOf(state, tx.from),
                        pledged |-> GetStakerPledgedBalance(state, tx.from, tx.to).val]
            /\ registered' = IF r.err = "" /\ r.reset.called /\ r.reset.done
                             THEN registered \cup {tx.to} ELSE registered
            /\ UNCHANGED <<blockNumber, saved>>
            /\ UNCHANGED voteVars
            /\ UNCHANGED loopVars
            /\ UNCHANGED instanceVars
            /\ UNCHANGED blockVars
            /\ UNCHANGED minerVars

finalizeStep(emptyBlock, validatorAddr, others, rewarded, advance) ==
    /\ steps < MaxSteps
    /\ steps' = steps + 1
    /\ state' = StateAt(Finalize(state, emptyBlock, validatorAddr, others, rewarded, blockNumber))
    /\ blockNumber' = blockNumber + advance
    /\ last' = [op |-> "Finalize", emptyBlock |-> emptyBlock, validatorAddr |-> validatorAddr,
                others |-> others, rewarded |-> rewarded]
    /\ UNCHANGED <<saved, registered>>
    /\ UNCHANGED voteVars
    /\ UNCHANGED loopVars
    /\ UNCHANGED instanceVars
    /\ UNCHANGED blockVars
    /\ UNCHANGED minerVars

\* a normal block: no reward is issued in block 1
FinalizeNormalBlock ==
    \E validatorAddr \in UpToOne(registryAddrs(state)) :
    \E evil \in UpToOne(registryAddrs(state)) :
    \E advance \in {1, CancelDayPledgedInterval} :
        finalizeStep(FALSE, validatorAddr, evil,
                     IF blockNumber = 1 THEN << >> ELSE validatorAddr, advance)

\* an empty block: the voters are the validators of the header
FinalizeEmptyBlock ==
    \E validatorAddr \in OneOrTwo(registryAddrs(state)) :
    \E offline \in UpToOne(registryAddrs(state)) :
    \E advance \in {1, CancelDayPledgedInterval} :
        finalizeStep(TRUE, validatorAddr, offline, validatorAddr, advance)

NextBlock ==
    \/ CommitTransaction
    \/ FinalizeNormalBlock
    \/ FinalizeEmptyBlock

Spec == Init /\ [][NextBlock]_vars

----------------------------------------------------------------------------
(* Production of an empty block by the worker (commitEmptyWork)            *)

MaxEmptySteps == 3
MaxPending == 2

EmptyBlockDifficulty == 24

\* the nonce and the mix digest that Prepare and PrepareEmpty write into the
\* header before anything else can fail
sealFields(header) ==
    [header EXCEPT !.defect = IF @ \in {"nonce", "mixDigest"} THEN "none" ELSE @]

\* chain.GetHeader(header.ParentHash, number-1) finds a header: at number 0
\* the 64-bit subtraction wraps to a height no chain has
parentKnown(header) == header.Number # 0 /\ header.defect # "ancestor"

\* Engine.PrepareEmpty on a header: refused unless the coinbase is zero and
\* the parent is known; sets the difficulty of empty blocks and the vote
\* messages
PrepareEmpty(header, messages) ==
    IF header.Coinbase # ZeroAddress
    THEN [header |-> header, err |-> "not a empty block"]
    ELSE IF ~parentKnown(header)
    THEN [header |-> sealFields(header), err |-> "ErrUnknownAncestor"]
    ELSE [header |-> [sealFields(header) EXCEPT
                          !.Difficulty = Some(EmptyBlockDifficulty),
                          !.votes = messages,
                          !.defect = IF @ = "extra" THEN "none" ELSE @],
          err |-> ""]

\* worker.commitTransactionsForEmpty with no interrupt: every transaction
\* of the ordered pending list is tried through commitTransactionForEmpty
\* (snapshot, ApplyTransaction, revert on error); the ones that succeed are
\* appended to the transactions of the block under construction
RECURSIVE commitTransactionsForEmpty(_, _, _)
commitTransactionsForEmpty(env, txs, number) ==
    IF txs = << >> THEN env
    ELSE Bind([r \in {commitTransaction(env.state, Head(txs), number)} |->
             commitTransactionsForEmpty(
                 [state |-> r.db,
                  txs |-> IF r.err = "" THEN Append(env.txs, Head(txs)) ELSE env.txs],
                 Tail(txs), number)])

\* the orders in which the pending transactions can be handed out
orderings(S) ==
    IF S = {} THEN {<< >>} ELSE {q \in UpToOne(S) \cup OneOrTwo(S) : {q[i] : i \in 1..Len(q)} = S}

\* worker.commitEmptyWork on the head state db: a header with the zero
\* coinbase, PrepareEmpty, a working state at the parent root, the pending
\* transactions, a copy of the state, FinalizeAndAssemble on the copy with the
\* transactions that were applied
commitEmptyWork(db, number, validators, offline, txs) ==
    Bind([p \in {PrepareEmpty([Number |-> number, Coinbase |-> ZeroAddress,
                               Difficulty |-> Nil, votes |-> << >>, defect |-> "none"],
                              validators)} |->
    Bind([env \in {commitTransactionsForEmpty([state |-> StateAt(db), txs |-> << >>],
                                              txs, number)} |->
        [block |-> [header |-> p.header, txs |-> env.txs],
         state |-> Finalize(Copy(env.state), TRUE, validators, offline, << >>, number)]])])

\* a transaction becomes pending in the pool
TxPoolAdd ==
    /\ steps < MaxEmptySteps
    /\ Cardinality(txpool) < MaxPending
    /\ \E tx \in TransferTxs \cup CancelTxs \cup RecoverTxs :
        /\ tx \notin txpool
        /\ txpool' = txpool \cup {tx}
        /\ last' = [op |-> "txpool", tx |-> tx]
    /\ steps' = steps + 1
    /\ UNCHANGED <<state, blockNumber, saved, registered, emptyBlocks>>
    /\ UNCHANGED minerVars
    /\ UNCHANGED voteVars
    /\ UNCHANGED loopVars
    /\ UNCHANGED instanceVars

\* emptyLoop calls commitEmptyWork for the votes of validators; the block is
\* inserted and becomes the head
CommitEmptyWork ==
    /\ steps < MaxEmptySteps
    /\ \E validators \in OneOrTwo(registryAddrs(state)) :
       \E offline \in UpToOne(registryAddrs(state)) :
       \E txs \in orderings(txpool) :
       \E r \in {commitEmptyWork(state, blockNumber, validators, offline, txs)} :
            /\ state' = StateAt(r.state)
            /\ emptyBlocks' = Append(emptyBlocks, r.block)
            /\ txpool' = txpool \ {r.block.txs[i] : i \in 1..Len(r.block.txs)}
            /\ last' = [op |-> "commitEmptyWork", block |-> r.block, pending |-> txpool]
    /\ steps' = steps + 1
    /\ blockNumber' = blockNumber + 1
    /\ UNCHANGED <<saved, registered>>
    /\ UNCHANGED minerVars
    /\ UNCHANGED voteVars
    /\ UNCHANGED loopVars
    /\ UNCHANGED instanceVars

NextEmpty ==
    \/ TxPoolAdd
    \/ CommitEmptyWork

\* the chain after a first block in which account 101 pledged as a validator
InitEmpty ==
    /\ state = StateAt(IntermediateRoot(
                   commitTransaction(NewStateDB,
                       Tx(101, 101, 3, ValidatorBase, ZeroAddress, ZeroAddress), 1).db, TRUE))
    /\ blockNumber = 2
    /\ saved = << >>
    /\ last = NoOp
    /\ registered = {}
    /\ steps = 0
    /\ recorded = Nil
    /\ other = Nil
    /\ shared = {}
    /\ txpool = {}
    /\ emptyBlocks = << >>
    /\ results = NoResults
    /\ work = NoWork
    /\ InitWorker([Validators |-> << >>], << >>)

SpecEmpty == InitEmpty /\ [][NextEmpty]_vars

----------------------------------------------------------------------------
(* Empty-block voting: the vote accumulator of Certify (proofStatePool)    *)
(* and the watchdog loop of the worker (emptyLoop).                        *)

ValidatorOrder == <<11, 12, 13>>
VoteValidators == {ValidatorOrder[i] : i \in 1..Len(ValidatorOrder)}
self == ValidatorOrder[1]
MaxHeight == 2
MaxEvents == 1
MaxVoteSteps == 7
CoefficientValues == {10, VALIDATOR_COEFFICIENT}
VoteHeights == 1..(MaxHeight + 1)

\* the validator pool stored in the chain: two equal stakes and a double one
ValidatorStakes == <<1, 1, 2>>
ValidatorPool ==
    [Validators |-> [i \in 1..Len(ValidatorOrder) |->
                        [Addr |-> ValidatorOrder[i], Balance |-> ValidatorStakes[i]]]]

\* ValidatorList.StakeBalance: the stake of the validator, zero if not listed
StakeBalance(sl, address) ==
    IF \E i \in 1..Len(sl.Validators) : sl.Validators[i].Addr = address
    THEN sl.Validators[CHOOSE i \in 1..Len(sl.Validators) :
                           sl.Validators[i].Addr = address].Balance
    ELSE 0

\* the signed payload of a vote, identified by its signer and height
assembleMessage(height, addr) == [Address |-> addr, Height |-> height]

EmptyMessageEvent(sender, height) ==
    [Sender |-> sender, Height |-> height, Payload |-> assembleMessage(height, sender)]

newProofState(proposer, proposerMessage, height) ==
    [ height               |-> height,
      onlineValidator      |-> << >>,
      emptyBlockMessages   |-> << >>,
      receiveValidatorsSum |-> 0 ]

HasNever(list, v) == FALSE

\* OnlineValidator.Has
Has(list, v) == \E i \in 1..Len(list) : list[i] = v

\* ProofStatePool.ClearPrev: drops the proof states of heights up to number
ClearPrev(ps, number) == [h \in {k \in DOMAIN ps : k > number} |-> ps[h]]

\* Certify.GatherOtherPeerSignature: the new pool, the error, and the height
\* sent on signatureResultCh (Nil when nothing is sent)
GatherOtherPeerSignature(ps, sl, validator, height, encQues) ==
    LET weightBalance == StakeBalance(sl, validator) * DEFAULT_VALIDATOR_COEFFICIENT
    IN  IF height \notin DOMAIN ps
        THEN LET p0 == newProofState(self, assembleMessage(height, self), height)
                 p1 == [p0 EXCEPT !.receiveValidatorsSum = 0 + weightBalance,
                                  !.onlineValidator = Append(@, validator),
                                  !.emptyBlockMessages = Append(@, encQues)]
             IN  [proofs |-> (height :> p1) @@ ps, err |-> "", sent |-> Some(height)]
        ELSE IF Has(ps[height].onlineValidator, validator)
        THEN [proofs |-> ps, err |-> "GatherOtherPeerSignature: validator exist",
              sent |-> Nil]
        ELSE [proofs |-> [ps EXCEPT
                  ![height].onlineValidator = Append(@, validator),
                  ![height].emptyBlockMessages = Append(@, encQues),
                  ![height].receiveValidatorsSum = @ + weightBalance],
              err |-> "", sent |-> Some(height)]

RECURSIVE totalWeight(_, _, _)
totalWeight(sl, coe, i) ==
    IF i = 0 THEN 0
    ELSE totalWeight(sl, coe, i - 1)
             + sl.Validators[i].Balance * coe[sl.Validators[i].Addr]

\* worker.targetSizeWithWeight: half of the pool's coefficient-weighted stake
targetSizeWithWeight(sl, coe) ==
    (50 * totalWeight(sl, coe, Len(sl.Validators))) \div 100

\* the result emptyLoop receives for a height: a view of its proof state
signatureResult(ps, height) ==
    [ Height           |-> height,
      ReceiveSum       |-> ps[height].receiveValidatorsSum,
      OnlineValidators |-> ps[height].onlineValidator,
      EmptyMessages    |-> ps[height].emptyBlockMessages ]

\* Certify.AssembleAndBroadcastMessage: the next vote index and the event
\* posted locally (none when the vote is only broadcast to the peers)
AssembleAndBroadcastMessage(sl, index, height) ==
    LET voteAddress == sl.Validators[index + 1].Addr
        next == IF index + 1 = Len(sl.Validators) THEN 0 ELSE index + 1
    IN  [ voteIndex |-> next,
          posted |-> IF voteAddress = self
                     THEN {EmptyMessageEvent(self, height)} ELSE {} ]

\* every step of the worker is counted; the chain state it reads is fixed
workerFrame ==
    /\ steps < MaxVoteSteps
    /\ steps' = steps + 1
    /\ UNCHANGED <<state, blockNumber, saved, registered, pool, coeff>>
    /\ UNCHANGED instanceVars
    /\ UNCHANGED txpool
    /\ UNCHANGED minerVars
    /\ UNCHANGED loopVars

\* emptyLoop, case emptyTimer.C, past the countdown: the node enters the
\* voting state for head + 1 unless the threshold cannot be computed
EmptyTimer ==
    /\ ~isEmpty
    /\ \E ok \in BOOLEAN :
        LET vote == AssembleAndBroadcastMessage(pool, voteIndex, head + 1)
        IN  /\ cstakers' = Some(pool)
            /\ cacheHeight' = head + 1
            /\ IF ok
               THEN /\ targetWeightBalance' = targetSizeWithWeight(pool, coeff)
                    /\ isEmpty' = TRUE
                    /\ voteIndex' = vote.voteIndex
                    /\ events' = events \cup vote.posted
               ELSE UNCHANGED <<targetWeightBalance, isEmpty, voteIndex, events>>
            /\ last' = [op |-> "emptyTimer", ok |-> ok]
    /\ UNCHANGED <<proofs, head, resultCh, sealed>>
    /\ workerFrame
    /\ UNCHANGED emptyBlocks

\* emptyLoop, case gossipTimer.C
GossipTimer ==
    /\ isEmpty
    /\ cstakers # Nil
    /\ LET vote == AssembleAndBroadcastMessage(Deref(cstakers), voteIndex, head + 1)
       IN  /\ voteIndex' = vote.voteIndex
           /\ events' = events \cup vote.posted
    /\ last' = [op |-> "gossipTimer"]
    /\ UNCHANGED <<proofs, head, isEmpty, targetWeightBalance, cacheHeight,
                   resultCh, sealed, cstakers>>
    /\ workerFrame
    /\ UNCHANGED emptyBlocks

\* Certify.HandleMsg: a vote received from a peer is cached unless its height
\* is not above the head
HandleMsg(sender, height) ==
    /\ Cardinality(events) < MaxEvents
    /\ IF head >= height
       THEN /\ last' = [op |-> "HandleMsg", sender |-> sender, height |-> height,
                        err |-> "GatherOtherPeerSignature: msg height < chain Number"]
            /\ UNCHANGED events
       ELSE /\ last' = [op |-> "HandleMsg", sender |-> sender, height |-> height,
                        err |-> ""]
            /\ events' = events \cup {EmptyMessageEvent(sender, height)}
    /\ UNCHANGED <<proofs, head, isEmpty, targetWeightBalance, cacheHeight,
                   resultCh, sealed, cstakers, voteIndex>>
    /\ workerFrame
    /\ UNCHANGED emptyBlocks

\* Certify.handleEvents: one vote event is accumulated; the handler then
\* blocks on signatureResultCh until emptyLoop receives the result
HandleEvent(ev) ==
    /\ ev \in events
    /\ cstakers # Nil
    /\ resultCh = << >>
    /\ LET r == GatherOtherPeerSignature(proofs, Deref(cstakers), ev.Sender,
                                         ev.Height, ev.Payload)
       IN  /\ proofs' = r.proofs
           /\ resultCh' = r.sent
           /\ last' = [op |-> "GatherOtherPeerSignature", validator |-> ev.Sender,
                       height |-> ev.Height, err |-> r.err]
    /\ events' = events \ {ev}
    /\ UNCHANGED <<head, isEmpty, targetWeightBalance, cacheHeight, sealed,
                   cstakers, voteIndex>>
    /\ workerFrame
    /\ UNCHANGED emptyBlocks

\* BlockChain.InsertChain with one block: the head afterwards
InsertChainDropped(chainHead, block) == chainHead

InsertChain(chainHead, block) ==
    IF block.header.Number = chainHead + 1 THEN block.header.Number ELSE chainHead

\* emptyLoop, case signatureResultCh: seal the empty block when the node is
\* voting, the result is for head + 1 and its weight exceeds the threshold.
\* commitEmptyWork builds on the block that is current when it runs, which
\* is the head the condition read or a block imported since; a block it
\* sealed is handed to InsertChain.
SignatureResult ==
    /\ resultCh # << >>
    /\ \E ok \in BOOLEAN :
        LET rs == signatureResult(proofs, Deref(resultCh))
            sealing == /\ isEmpty
                       /\ head + 1 = rs.Height
                       /\ rs.ReceiveSum > targetWeightBalance
            reset == sealing /\ ok
        IN  \E parent \in {head} \cup {n \in {head + 1} : sealing /\ n < MaxHeight} :
            LET block == [header |-> PrepareEmpty(
                                         [Number |-> parent + 1, Coinbase |-> ZeroAddress,
                                          Difficulty |-> Nil, votes |-> << >>,
                                          defect |-> "none"],
                                         rs.EmptyMessages).header,
                          txs |-> << >>, votedHeight |-> rs.Height]
                inserted == IF reset THEN InsertChain(parent, block) ELSE parent
            IN  /\ sealed' = IF sealing THEN sealed \cup {rs} ELSE sealed
                /\ isEmpty' = IF reset THEN FALSE ELSE isEmpty
                /\ voteIndex' = IF reset THEN 0 ELSE voteIndex
                /\ emptyBlocks' = IF reset THEN Append(emptyBlocks, block) ELSE emptyBlocks
                /\ head' = inserted
                /\ proofs' = ClearPrev(proofs, inserted)
                /\ last' = [op |-> "signatureResult", rs |-> rs, voting |-> isEmpty,
                            head |-> head, sealing |-> sealing, ok |-> reset,
                            parent |-> parent]
    /\ resultCh' = << >>
    /\ UNCHANGED <<targetWeightBalance, cacheHeight, cstakers, events>>
    /\ workerFrame

\* emptyLoop, case checkTimer.C
CheckTimer ==
    /\ isEmpty
    /\ cacheHeight <= head
    /\ isEmpty' = FALSE
    /\ voteIndex' = 0
    /\ last' = [op |-> "checkTimer"]
    /\ UNCHANGED <<proofs, head, targetWeightBalance, cacheHeight, resultCh,
                   sealed, cstakers, events>>
    /\ workerFrame
    /\ UNCHANGED emptyBlocks

\* a block is inserted and becomes the chain head
NewHead ==
    /\ head < MaxHeight
    /\ head' = head + 1
    /\ last' = [op |-> "newHead"]
    /\ UNCHANGED <<proofs, isEmpty, targetWeightBalance, cacheHeight, resultCh,
                   sealed, cstakers, events, voteIndex>>
    /\ workerFrame
    /\ UNCHANGED emptyBlocks

NextVote ==
    \/ EmptyTimer
    \/ GossipTimer
    \/ \E v \in VoteValidators, h \in VoteHeights : HandleMsg(v, h)
    \/ \E ev \in events : HandleEvent(ev)
    \/ SignatureResult
    \/ CheckTimer
    \/ NewHead

InitVote ==
    /\ InitState
    /\ \E c \in [VoteValidators -> CoefficientValues] : InitWorker(ValidatorPool, c)

SpecVote == InitVote /\ [][NextVote]_vars

----------------------------------------------------------------------------
(* The vote handler that handleEvents calls with the sender and the vote   *)

\* ValidatorList.GetValidatorAddr: the validator an address stands for, the
\* zero address when it stands for none
GetValidatorAddr(sl, addr) ==
    IF \E i \in 1..Len(sl.Validators) : sl.Validators[i].Addr = addr
    THEN addr ELSE ZeroAddress

\* worker.GetAverageCoefficient: ten times the default coefficient scaled
\* by the ratio of the weighted stake to the stake at the default
\* coefficient, truncated
GetAverageCoefficient(sl, coe) ==
    (totalWeight(sl, coe, Len(sl.Validators)) * DEFAULT_VALIDATOR_COEFFICIENT * 10)
        \div totalWeight(sl, [v \in DOMAIN coe |-> DEFAULT_VALIDATOR_COEFFICIENT],
                         Len(sl.Validators))

\* Certify.GatherOtherPeerSignature(addr, vote, height, encQues), entered
\* with c.lock taken: the new pool, the error, the height sent on
\* signatureResultCh, and whether c.lock is still held at the return
GatherOtherPeerSignatureOfVote(ps, stakers, addr, vote, height, encQues, coe, stateErr) ==
    IF self # vote
    THEN [proofs |-> ps, err |-> "", sent |-> Nil, locked |-> FALSE]
    ELSE IF stakers = Nil
    THEN [proofs |-> ps, err |-> "stakes is nil", sent |-> Nil, locked |-> FALSE]
    ELSE IF GetValidatorAddr(Deref(stakers), addr) = ZeroAddress
    THEN [proofs |-> ps, err |-> "not a validator", sent |-> Nil, locked |-> FALSE]
    ELSE IF stateErr
    THEN [proofs |-> ps, err |-> "StateAt", sent |-> Nil, locked |-> FALSE]
    ELSE Bind([validator \in {GetValidatorAddr(Deref(stakers), addr)} |->
         Bind([weightBalance \in {(StakeBalance(Deref(stakers), validator)
                                      * GetAverageCoefficient(Deref(stakers), coe))
                                         \div 10} |->
            IF height \notin DOMAIN ps
            THEN [proofs |-> (height :>
                                [newProofState(validator, validator, height) EXCEPT
                                    !.receiveValidatorsSum = 0 + weightBalance,
                                    !.onlineValidator = Append(@, validator),
                                    !.emptyBlockMessages = Append(@, encQues)]) @@ ps,
                  err |-> "", sent |-> Some(height), locked |-> FALSE]
            ELSE IF Has(ps[height].onlineValidator, validator)
            THEN [proofs |-> ps, err |-> "GatherOtherPeerSignature: validator exist",
                  sent |-> Nil, locked |-> TRUE]
            ELSE [proofs |-> [ps EXCEPT
                      ![height].onlineValidator = Append(@, validator),
                      ![height].emptyBlockMessages = Append(@, encQues),
                      ![height].receiveValidatorsSum = @ + weightBalance],
                  err |-> "", sent |-> Some(height), locked |-> FALSE]])])

\* Certify.handleEvents: one vote event is handed to the handler, which first
\* takes c.lock and which blocks on signatureResultCh after an accepted vote
\* until emptyLoop receives the result
HandleVoteEvent(ev) ==
    /\ ev \in events
    /\ resultCh = << >>
    /\ ~lock
    /\ \E vote \in {self, ValidatorOrder[2]}, stateErr \in BOOLEAN :
        \E r \in {GatherOtherPeerSignatureOfVote(proofs, cstakers, ev.Sender, vote,
                                                 ev.Height, ev.Payload, coeff, stateErr)} :
            /\ proofs' = r.proofs
            /\ resultCh' = r.sent
            /\ lock' = r.locked
            /\ last' = [op |-> "GatherOtherPeerSignature", validator |-> ev.Sender,
                        vote |-> vote, height |-> ev.Height, err |-> r.err]
    /\ events' = events \ {ev}
    /\ UNCHANGED <<head, isEmpty, targetWeightBalance, cacheHeight, sealed,
                   cstakers, voteIndex>>
    /\ steps < MaxVoteSteps
    /\ steps' = steps + 1
    /\ UNCHANGED <<state, blockNumber, saved, registered, pool, coeff>>
    /\ UNCHANGED instanceVars
    /\ UNCHANGED blockVars
    /\ UNCHANGED minerVars
    /\ UNCHANGED <<running, totalCondition, emptyTimer, pc, resetEmptyCh, chainHeadCh,
                   taskCh, stopCh, valiTotal>>

NextGather ==
    \/ EmptyTimer
    \/ GossipTimer
    \/ \E v \in VoteValidators, h \in VoteHeights : HandleMsg(v, h)
    \/ \E ev \in events : HandleVoteEvent(ev)
    \/ SignatureResult
    \/ CheckTimer
    \/ NewHead

SpecGather == InitVote /\ [][NextGather]_vars

----------------------------------------------------------------------------
(* The goroutines of the worker and the channels between them: emptyLoop   *)
(* (the watchdog), newWorkLoop, mainLoop, taskLoop and the vote handler.   *)
(* A goroutine stands at its select, or at a channel operation that has    *)
(* not completed yet. The weight of the votes is that of SpecVote; here a  *)
(* result only carries whether it exceeds the threshold.                   *)

MaxTicks == 2
MaxHeadEvents == 1
checkpointValidator == 15
checkpointOther == 16
ceilingTicks == 120
onlineLimit == 7
resetEmptyChSize == 1
OnlineCounts == {onlineLimit - 1, onlineLimit, onlineLimit + 1}

\* the pool of the chain without the local node
notSelf(v) == v.Addr # self
PoolWithoutSelf == [Validators |-> SelectSeq(ValidatorPool.Validators, notSelf)]

\* the variables of the watchdog
WatchdogVars == {"isEmpty", "cacheHeight", "totalCondition"}

\* worker.resetEmptyCondition
resetEmptyCondition ==
    /\ isEmpty' = FALSE
    /\ totalCondition' = 0
    /\ emptyTimer' = TRUE
    /\ voteIndex' = 0

\* the reset of the watchdog sent on resetEmptyCh, as newWorkLoop does it:
\* the signal is buffered, or the sender stands at the send
deliverResetBySend(buffered) ==
    IF buffered < resetEmptyChSize
    THEN [call |-> FALSE, buffered |-> buffered + 1, pc |-> "select"]
    ELSE [call |-> FALSE, buffered |-> buffered, pc |-> "resetEmptyCh"]

\* how emptyLoop resets the watchdog from its own cases: a direct call of
\* resetEmptyCondition, which leaves the loop at its select
deliverReset(buffered) ==
    [call |-> TRUE, buffered |-> buffered, pc |-> "select"]

\* the outcome of one tick of emptyTimer: what the handler does before it
\* reaches the send on emptyCh
tickOutcomeNoCeiling(isRunning, voting, counted, number, total, online, poolErr, member) ==
    IF ~isRunning THEN "stopped"
    ELSE IF voting THEN "voting"
    ELSE IF number > 0 /\ counted # total THEN "counting"
    ELSE IF number > 0 /\ online >= onlineLimit THEN "online"
    ELSE IF poolErr THEN "poolError"
    ELSE IF ~member THEN "notValidator"
    ELSE "emptyCh"

tickOutcome(isRunning, voting, counted, number, total, online, poolErr, member) ==
    IF ~isRunning THEN "stopped"
    ELSE IF voting THEN "voting"
    ELSE IF counted < ceilingTicks /\ number > 0 /\ counted # total THEN "counting"
    ELSE IF counted < ceilingTicks /\ number > 0 /\ online >= onlineLimit THEN "online"
    ELSE IF poolErr THEN "poolError"
    ELSE IF ~member THEN "notValidator"
    ELSE "emptyCh"

\* the part of the state no goroutine of the worker changes
loopFrame ==
    /\ UNCHANGED <<state, blockNumber, saved, registered, pool, coeff, proofs, sealed>>
    /\ UNCHANGED instanceVars
    /\ UNCHANGED blockVars
    /\ UNCHANGED minerVars

\* miner.Start and miner.Stop
LoopStart ==
    /\ ~running
    /\ running' = TRUE
    /\ last' = [op |-> "start", by |-> "miner", reads |-> {}, writes |-> {}]
    /\ UNCHANGED <<head, isEmpty, targetWeightBalance, cacheHeight, resultCh, cstakers,
                   events, voteIndex>>
    /\ UNCHANGED <<totalCondition, emptyTimer, pc, resetEmptyCh, chainHeadCh, taskCh,
                   stopCh, valiTotal, lock>>
    /\ UNCHANGED steps
    /\ loopFrame

LoopStop ==
    /\ running
    /\ running' = FALSE
    /\ last' = [op |-> "stop", by |-> "miner", reads |-> {}, writes |-> {}]
    /\ UNCHANGED <<head, isEmpty, targetWeightBalance, cacheHeight, resultCh, cstakers,
                   events, voteIndex>>
    /\ UNCHANGED <<totalCondition, emptyTimer, pc, resetEmptyCh, chainHeadCh, taskCh,
                   stopCh, valiTotal, lock>>
    /\ UNCHANGED steps
    /\ loopFrame

\* emptyLoop, case emptyTimer.C, up to the send on emptyCh
LoopEmptyTimer ==
    /\ pc["emptyLoop"] = "select"
    /\ emptyTimer
    /\ \E rs \in BOOLEAN, online \in OnlineCounts, poolErr \in BOOLEAN :
        LET ticks == totalCondition + 1
            total == IF rs THEN checkpointValidator ELSE checkpointOther
            member == GetValidatorAddr(pool, self) # ZeroAddress
            outcome == tickOutcome(running, isEmpty, ticks, head, total, online,
                                   poolErr, member)
            checkpoint == outcome \notin {"stopped", "voting"} /\ ticks = total
                            /\ ticks < ceilingTicks /\ head > 0
        IN  \* an input is drawn only where the handler reads it
            /\ (~rs => outcome \notin {"stopped", "voting"})
            /\ (online # onlineLimit - 1 => checkpoint)
            /\ (poolErr => outcome = "poolError")
            /\ totalCondition' = CASE outcome \in {"stopped", "voting"} -> totalCondition
                                   [] outcome \in {"counting", "online"} -> ticks
                                   [] OTHER -> 0
            /\ emptyTimer' = (outcome # "notValidator")
            /\ cstakers' = IF outcome = "emptyCh" THEN Some(pool) ELSE cstakers
            /\ valiTotal' = IF outcome = "emptyCh" THEN total ELSE valiTotal
            /\ pc' = IF outcome = "emptyCh" THEN [pc EXCEPT !["emptyLoop"] = "emptyCh"]
                     ELSE pc
            /\ last' = [op |-> "emptyTimer", by |-> "emptyLoop",
                        reads |-> IF outcome = "stopped" THEN {}
                                  ELSE IF outcome = "voting" THEN {"isEmpty"}
                                  ELSE {"isEmpty", "totalCondition"},
                        writes |-> IF outcome \in {"stopped", "voting"} THEN {}
                                   ELSE {"totalCondition"},
                        outcome |-> outcome,
                        checkpoint |-> checkpoint,
                        ceiling |-> outcome \notin {"stopped", "voting"}
                                        /\ ticks >= ceilingTicks,
                        online |-> IF checkpoint THEN online ELSE 0]
    /\ UNCHANGED <<head, isEmpty, targetWeightBalance, cacheHeight, resultCh, events,
                   voteIndex>>
    /\ UNCHANGED <<running, resetEmptyCh, chainHeadCh, taskCh, stopCh, lock>>
    /\ UNCHANGED steps
    /\ loopFrame

\* the send on emptyCh completes: taskLoop receives and interrupts the
\* sealing in flight
LoopEmptyCh ==
    /\ pc["emptyLoop"] = "emptyCh"
    /\ pc["taskLoop"] = "select"
    /\ stopCh' = Nil
    /\ pc' = [pc EXCEPT !["emptyLoop"] = "vote"]
    /\ last' = [op |-> "emptyCh", by |-> "taskLoop", reads |-> {}, writes |-> {}]
    /\ UNCHANGED <<head, isEmpty, targetWeightBalance, cacheHeight, resultCh, cstakers,
                   events, voteIndex>>
    /\ UNCHANGED <<running, totalCondition, emptyTimer, resetEmptyCh, chainHeadCh,
                   taskCh, valiTotal, lock>>
    /\ UNCHANGED steps
    /\ loopFrame

\* emptyLoop, case emptyTimer.C, after the send on emptyCh: the vote handler
\* is started, the start of the vote is announced, and the node enters the
\* voting state for head + 1
LoopStartVote ==
    /\ pc["emptyLoop"] = "vote"
    /\ \E postErr \in BOOLEAN, targetErr \in BOOLEAN :
        LET vote == AssembleAndBroadcastMessage(Deref(cstakers), voteIndex, head + 1)
            entered == ~postErr /\ ~targetErr
        IN  /\ (postErr => ~targetErr)
            /\ cacheHeight' = IF postErr THEN cacheHeight ELSE head + 1
            /\ targetWeightBalance' = IF entered THEN targetSizeWithWeight(pool, coeff)
                                      ELSE targetWeightBalance
            /\ isEmpty' = IF entered THEN TRUE ELSE isEmpty
            /\ emptyTimer' = IF entered THEN FALSE ELSE emptyTimer
            /\ voteIndex' = IF entered /\ valiTotal = checkpointValidator
                            THEN vote.voteIndex ELSE voteIndex
            /\ events' = IF entered /\ valiTotal = checkpointValidator
                         THEN events \cup vote.posted ELSE events
            /\ last' = [op |-> "startVote", by |-> "emptyLoop", reads |-> {},
                        writes |-> IF postErr THEN {}
                                   ELSE IF targetErr THEN {"cacheHeight"}
                                   ELSE {"cacheHeight", "isEmpty"},
                        err |-> IF postErr THEN "post"
                                ELSE IF targetErr THEN "target" ELSE "none"]
    /\ pc' = [pc EXCEPT !["emptyLoop"] = "select",
                        !["handleEvents"] = IF @ = "off" THEN "select" ELSE @]
    /\ UNCHANGED <<head, resultCh, cstakers>>
    /\ valiTotal' = 0
    /\ UNCHANGED <<running, totalCondition, resetEmptyCh, chainHeadCh, taskCh, stopCh,
                   lock>>
    /\ UNCHANGED steps
    /\ loopFrame

\* emptyLoop, case resetEmptyCh
LoopResetEmpty ==
    /\ pc["emptyLoop"] = "select"
    /\ resetEmptyCh > 0
    /\ resetEmptyCh' = resetEmptyCh - 1
    /\ resetEmptyCondition
    /\ last' = [op |-> "resetEmpty", by |-> "emptyLoop", reads |-> {},
                writes |-> {"isEmpty", "totalCondition"}]
    /\ UNCHANGED <<head, targetWeightBalance, cacheHeight, resultCh, cstakers, events>>
    /\ UNCHANGED <<running, pc, chainHeadCh, taskCh, stopCh, valiTotal, lock>>
    /\ UNCHANGED steps
    /\ loopFrame

\* emptyLoop, case checkTimer.C: a vote for a height the chain has reached
\* is abandoned
LoopCheckTimer ==
    /\ pc["emptyLoop"] = "select"
    /\ isEmpty
    /\ cacheHeight <= head
    /\ \E r \in {deliverReset(resetEmptyCh)} :
        /\ resetEmptyCh' = r.buffered
        /\ pc' = [pc EXCEPT !["emptyLoop"] = r.pc]
        /\ IF r.call THEN resetEmptyCondition
           ELSE UNCHANGED <<isEmpty, totalCondition, emptyTimer, voteIndex>>
    /\ last' = [op |-> "checkTimer", by |-> "emptyLoop",
                reads |-> {"isEmpty", "cacheHeight"},
                writes |-> {"isEmpty", "totalCondition"}]
    /\ UNCHANGED <<head, targetWeightBalance, cacheHeight, resultCh, cstakers, events>>
    /\ UNCHANGED <<running, chainHeadCh, taskCh, stopCh, valiTotal, lock>>
    /\ UNCHANGED steps
    /\ loopFrame

\* Certify.handleEvents with the three-argument GatherOtherPeerSignature,
\* which unlocks on return: a vote event for a height above the head is
\* accumulated under c.lock, and the handler sends the result on
\* signatureResultCh, still holding the lock
LoopVoteEvent ==
    /\ pc["handleEvents"] = "select"
    /\ ~lock
    /\ \E height \in VoteHeights, enough \in BOOLEAN :
        /\ head < height
        /\ resultCh' = Some([Height |-> height, enough |-> enough])
        /\ last' = [op |-> "voteEvent", by |-> "handleEvents", reads |-> {},
                    writes |-> {}]
    /\ lock' = TRUE
    /\ pc' = [pc EXCEPT !["handleEvents"] = "signatureResultCh"]
    /\ UNCHANGED <<head, isEmpty, targetWeightBalance, cacheHeight, cstakers, voteIndex,
                   events>>
    /\ UNCHANGED <<running, totalCondition, emptyTimer, resetEmptyCh, chainHeadCh,
                   taskCh, stopCh, valiTotal>>
    /\ UNCHANGED steps
    /\ loopFrame

\* emptyLoop, case signatureResultCh: the empty block is sealed when the
\* node is voting, the result is for head + 1 and its weight exceeds the
\* threshold; the handler returns and releases c.lock
LoopSignatureResult ==
    /\ pc["emptyLoop"] = "select"
    /\ pc["handleEvents"] = "signatureResultCh"
    /\ \E ok \in BOOLEAN :
        LET rs == Deref(resultCh)
            sealing == isEmpty /\ head + 1 = rs.Height /\ rs.enough
            reset == sealing /\ ok
        IN  /\ (ok => sealing /\ head < MaxHeight /\ Len(chainHeadCh) < MaxHeadEvents)
            /\ head' = IF reset THEN head + 1 ELSE head
            /\ chainHeadCh' = IF reset THEN Append(chainHeadCh, head + 1) ELSE chainHeadCh
            /\ \E r \in {deliverReset(resetEmptyCh)} :
                /\ resetEmptyCh' = IF reset THEN r.buffered ELSE resetEmptyCh
                /\ pc' = [pc EXCEPT !["handleEvents"] = "select",
                                    !["emptyLoop"] = IF reset THEN r.pc ELSE @]
                /\ IF reset /\ r.call THEN resetEmptyCondition
                   ELSE UNCHANGED <<isEmpty, totalCondition, emptyTimer, voteIndex>>
            /\ last' = [op |-> "signatureResult", by |-> "emptyLoop",
                        reads |-> {"isEmpty"},
                        writes |-> IF reset THEN {"isEmpty", "totalCondition"} ELSE {}]
    /\ resultCh' = << >>
    /\ lock' = FALSE
    /\ UNCHANGED <<targetWeightBalance, cacheHeight, cstakers, events>>
    /\ UNCHANGED <<running, taskCh, stopCh, valiTotal>>
    /\ UNCHANGED steps
    /\ loopFrame

\* newWorkLoop, case chainHeadCh: the watchdog is told to reset when the head
\* has reached the height it votes for, then new work is requested
LoopChainHead ==
    /\ pc["newWorkLoop"] = "select"
    /\ chainHeadCh # << >>
    /\ LET number == Head(chainHeadCh)
           send == cacheHeight <= number
       IN  /\ resetEmptyCh' = IF send /\ resetEmptyCh < resetEmptyChSize
                              THEN resetEmptyCh + 1 ELSE resetEmptyCh
           /\ pc' = [pc EXCEPT !["newWorkLoop"] =
                        IF send /\ ~(resetEmptyCh < resetEmptyChSize)
                        THEN "resetEmptyCh" ELSE "newWorkCh"]
           /\ last' = [op |-> "chainHead", by |-> "newWorkLoop",
                       reads |-> {"cacheHeight"}, writes |-> {}]
    /\ chainHeadCh' = Tail(chainHeadCh)
    /\ UNCHANGED <<head, isEmpty, targetWeightBalance, cacheHeight, resultCh, cstakers,
                   events, voteIndex>>
    /\ UNCHANGED <<running, totalCondition, emptyTimer, taskCh, stopCh, valiTotal, lock>>
    /\ UNCHANGED steps
    /\ loopFrame

\* newWorkLoop: the send on resetEmptyCh completes once the buffer has room
LoopResetSend ==
    /\ pc["newWorkLoop"] = "resetEmptyCh"
    /\ resetEmptyCh < resetEmptyChSize
    /\ resetEmptyCh' = resetEmptyCh + 1
    /\ pc' = [pc EXCEPT !["newWorkLoop"] = "newWorkCh"]
    /\ last' = [op |-> "resetSend", by |-> "newWorkLoop", reads |-> {}, writes |-> {}]
    /\ UNCHANGED <<head, isEmpty, targetWeightBalance, cacheHeight, resultCh, cstakers,
                   events, voteIndex>>
    /\ UNCHANGED <<running, totalCondition, emptyTimer, chainHeadCh, taskCh, stopCh,
                   valiTotal, lock>>
    /\ UNCHANGED steps
    /\ loopFrame

\* newWorkLoop, cases startCh and timer.C: new work is requested
LoopRecommit ==
    /\ pc["newWorkLoop"] = "select"
    /\ running
    /\ pc' = [pc EXCEPT !["newWorkLoop"] = "newWorkCh"]
    /\ last' = [op |-> "recommit", by |-> "newWorkLoop", reads |-> {}, writes |-> {}]
    /\ UNCHANGED <<head, isEmpty, targetWeightBalance, cacheHeight, resultCh, cstakers,
                   events, voteIndex>>
    /\ UNCHANGED <<running, totalCondition, emptyTimer, resetEmptyCh, chainHeadCh,
                   taskCh, stopCh, valiTotal, lock>>
    /\ UNCHANGED steps
    /\ loopFrame

\* mainLoop, case newWorkCh: commitNewWork returns at once when the miner is
\* stopped, and otherwise starts a block on the current head
LoopNewWork ==
    /\ pc["newWorkLoop"] = "newWorkCh"
    /\ pc["mainLoop"] = "select"
    /\ pc' = [pc EXCEPT !["newWorkLoop"] = "select",
                        !["mainLoop"] = IF running THEN "prepare" ELSE "select"]
    /\ taskCh' = IF running THEN Some([Coinbase |-> ZeroAddress, Number |-> head + 1])
                 ELSE taskCh
    /\ last' = [op |-> "newWork", by |-> "mainLoop", reads |-> {}, writes |-> {}]
    /\ UNCHANGED <<head, isEmpty, targetWeightBalance, cacheHeight, resultCh, cstakers,
                   events, voteIndex>>
    /\ UNCHANGED <<running, totalCondition, emptyTimer, resetEmptyCh, chainHeadCh,
                   stopCh, valiTotal, lock>>
    /\ UNCHANGED steps
    /\ loopFrame

\* commitNewWork: the coinbase is set only while the miner is running; the
\* block is then filled by commitTransactions, which reads isEmpty when it
\* finds the miner stopped, and handed to commit
LoopPrepare ==
    /\ pc["mainLoop"] = "prepare"
    /\ pc' = [pc EXCEPT !["mainLoop"] = "taskCh"]
    /\ taskCh' = Some([Deref(taskCh) EXCEPT !.Coinbase = IF running THEN self ELSE @])
    /\ last' = [op |-> "prepare", by |-> "mainLoop",
                reads |-> IF running THEN {} ELSE {"isEmpty"}, writes |-> {}]
    /\ UNCHANGED <<head, isEmpty, targetWeightBalance, cacheHeight, resultCh, cstakers,
                   events, voteIndex>>
    /\ UNCHANGED <<running, totalCondition, emptyTimer, resetEmptyCh, chainHeadCh,
                   stopCh, valiTotal, lock>>
    /\ UNCHANGED steps
    /\ loopFrame

\* worker.commit and taskLoop, case taskCh: the task is dropped when the
\* miner is stopped; otherwise taskLoop receives it and, unless the node is
\* voting or the coinbase is zero, interrupts the sealing in flight and
\* hands the block to the engine
LoopTask ==
    /\ pc["mainLoop"] = "taskCh"
    /\ pc["taskLoop"] = "select"
    /\ LET task == Deref(taskCh)
           received == running
           seal == received /\ ~isEmpty /\ task.Coinbase # ZeroAddress
       IN  /\ stopCh' = IF seal THEN Some(task) ELSE stopCh
           /\ last' = [op |-> "task", by |-> IF received THEN "taskLoop" ELSE "mainLoop",
                       reads |-> IF received THEN {"isEmpty"} ELSE {}, writes |-> {},
                       seal |-> seal]
    /\ taskCh' = Nil
    /\ pc' = [pc EXCEPT !["mainLoop"] = "select"]
    /\ UNCHANGED <<head, isEmpty, targetWeightBalance, cacheHeight, resultCh, cstakers,
                   events, voteIndex>>
    /\ UNCHANGED <<running, totalCondition, emptyTimer, resetEmptyCh, chainHeadCh,
                   valiTotal, lock>>
    /\ UNCHANGED steps
    /\ loopFrame

\* resultLoop: the engine delivers the sealed block, which becomes the head
LoopSealed ==
    /\ stopCh # Nil
    /\ Deref(stopCh).Number = head + 1
    /\ head < MaxHeight
    /\ Len(chainHeadCh) < MaxHeadEvents
    /\ head' = head + 1
    /\ chainHeadCh' = Append(chainHeadCh, head + 1)
    /\ last' = [op |-> "sealed", by |-> "resultLoop", reads |-> {}, writes |-> {}]
    /\ UNCHANGED <<isEmpty, targetWeightBalance, cacheHeight, resultCh, cstakers,
                   events, voteIndex>>
    /\ UNCHANGED <<running, totalCondition, emptyTimer, pc, resetEmptyCh, taskCh,
                   stopCh, valiTotal, lock>>
    /\ UNCHANGED steps
    /\ loopFrame

\* a block of a peer is imported and becomes the head
LoopImport ==
    /\ head < MaxHeight
    /\ Len(chainHeadCh) < MaxHeadEvents
    /\ head' = head + 1
    /\ chainHeadCh' = Append(chainHeadCh, head + 1)
    /\ last' = [op |-> "import", by |-> "downloader", reads |-> {}, writes |-> {}]
    /\ UNCHANGED <<isEmpty, targetWeightBalance, cacheHeight, resultCh, cstakers,
                   events, voteIndex>>
    /\ UNCHANGED <<running, totalCondition, emptyTimer, pc, resetEmptyCh, taskCh,
                   stopCh, valiTotal, lock>>
    /\ UNCHANGED steps
    /\ loopFrame

\* the first ticks of each countdown
LoopFirstTicks ==
    /\ totalCondition < MaxTicks
    /\ LoopEmptyTimer

\* all the goroutines, during the first ticks of each countdown
NextWorker ==
    \/ LoopStart
    \/ LoopStop
    \/ LoopFirstTicks
    \/ LoopEmptyCh
    \/ LoopStartVote
    \/ LoopResetEmpty
    \/ LoopCheckTimer
    \/ LoopVoteEvent
    \/ LoopSignatureResult
    \/ LoopChainHead
    \/ LoopResetSend
    \/ LoopRecommit
    \/ LoopNewWork
    \/ LoopPrepare
    \/ LoopTask
    \/ LoopSealed
    \/ LoopImport

\* the chain state is fixed
InitLoops ==
    /\ InitState
    /\ InitWorker(ValidatorPool, [v \in VoteValidators |-> VALIDATOR_COEFFICIENT])

SpecWorker == InitLoops /\ [][NextWorker]_vars

\* the watchdog over its whole countdown, with the goroutines that a new
\* head sets in motion
NextWatchdog ==
    \/ LoopStart
    \/ LoopEmptyTimer
    \/ LoopEmptyCh
    \/ LoopStartVote
    \/ LoopResetEmpty
    \/ LoopCheckTimer
    \/ LoopChainHead
    \/ LoopResetSend
    \/ LoopNewWork
    \/ LoopPrepare
    \/ LoopTask
    \/ LoopImport

\* the local node is in the validator pool or not
InitWatchdog ==
    /\ InitState
    /\ \E p \in {ValidatorPool, PoolWithoutSelf} :
        InitWorker(p, [v \in VoteValidators |-> VALIDATOR_COEFFICIENT])

SpecWatchdog == InitWatchdog /\ [][NextWatchdog]_vars

----------------------------------------------------------------------------
(* Specification of the pledge operations: pledges and withdrawals arrive   *)
(* as transactions of type 3 and 4, RevocateAllStakers is also called on   *)
(* its own, and the coefficient of a validator is lowered as the engine    *)
(* does for a validator that missed its turn.                              *)

MaxStakeSteps == 5

\* self-pledges of both users, and a delegation in each direction
StakePledgeTxs ==
    {Tx(101, 101, 3, v, ZeroAddress, ZeroAddress) : v \in {StakerBase, ValidatorBase}}
        \cup {Tx(102, 102, 3, ValidatorBase, ZeroAddress, ZeroAddress),
              Tx(102, 101, 3, StakerBase, ZeroAddress, ZeroAddress),
              Tx(101, 102, 3, StakerBase, ZeroAddress, ZeroAddress)}

StakeTxs == StakePledgeTxs \cup CancelTxs

stakeFrame ==
    /\ steps < MaxStakeSteps
    /\ steps' = steps + 1
    /\ UNCHANGED <<saved, registered>>
    /\ UNCHANGED voteVars
    /\ UNCHANGED loopVars
    /\ UNCHANGED instanceVars
    /\ UNCHANGED blockVars
    /\ UNCHANGED minerVars

\* one pledge or withdrawal committed by the worker
StakeTransaction ==
    /\ stakeFrame
    /\ \E tx \in StakeTxs :
        \E r \in {commitTransaction(state, tx, blockNumber)} :
            /\ state' = r.db
            /\ last' = [op |-> "commitTransaction", tx |-> tx, err |-> r.err,
                        reset |-> resetView(r.reset),
                        wasValidator |-> tx.from \in registryAddrs(state),
                        coe |-> coefficientOf(state, tx.from),
                        pledged |-> GetStakerPledgedBalance(state, tx.from, tx.to).val]
    /\ UNCHANGED blockNumber

\* RevocateAllStakers called on a validator
StakeRevocateAllStakers ==
    /\ stakeFrame
    /\ \E addr \in registryAddrs(state) :
        /\ state' = RevocateAllStakers(state, addr, blockNumber)
        /\ last' = [op |-> "RevocateAllStakers", addr |-> addr]
    /\ UNCHANGED blockNumber

\* the coefficient of a validator is lowered
StakeSubValidatorCoefficient ==
    /\ stakeFrame
    /\ \E addr \in registryAddrs(state) :
        /\ state' = SubValidatorCoefficient(state, addr, 20)
        /\ last' = [op |-> "SubValidatorCoefficient", addr |-> addr]
    /\ UNCHANGED blockNumber

\* the chain grows until the pledges made so far can be withdrawn
StakeAdvance ==
    /\ stakeFrame
    /\ blockNumber = 1
    /\ blockNumber' = blockNumber + CancelDayPledgedInterval
    /\ last' = [op |-> "advance"]
    /\ UNCHANGED state

NextStake ==
    \/ StakeTransaction
    \/ StakeRevocateAllStakers
    \/ StakeSubValidatorCoefficient
    \/ StakeAdvance

SpecStake == Init /\ [][NextStake]_vars

----------------------------------------------------------------------------
(* Header preparation and verification by the consensus engine             *)

DefaultDifficulty == 1

\* the one property of a header, if any, that a check other than the
\* difficulty check rejects: a time in the future, an extra-data field that
\* does not decode, a wrong nonce or mix digest, an unknown parent, a time
\* too close to the parent's, an unauthorised signer, bad committed seals
HeaderDefects ==
    {"none", "future", "extra", "nonce", "mixDigest", "ancestor", "timestamp",
     "signer", "seals"}

\* the senders of the vote messages a header carries
VoteLists == UpToOne(VoteValidators) \cup OneOrTwo(VoteValidators) \cup {ValidatorOrder}

Headers ==
    [Number : 0..MaxHeight, Coinbase : {ZeroAddress, self},
     Difficulty : {Nil, Some(DefaultDifficulty), Some(EmptyBlockDifficulty)},
     votes : VoteLists, defect : HeaderDefects]

verifyHeaderAnyDifficulty(header) == ""

\* Engine.verifyCascadingFields: the parent, the timestamp, and for a block
\* with a coinbase the signer and the committed seals.  For a zero coinbase
\* above the genesis it returns after the timestamp check: the call of
\* verifyEmptyVote is commented out.
verifyCascadingFields(header) ==
    IF header.Number = 0 THEN ""
    ELSE IF header.defect = "ancestor" THEN "ErrUnknownAncestor"
    ELSE IF header.defect = "timestamp" THEN "ErrInvalidTimestamp"
    ELSE IF header.Coinbase = ZeroAddress /\ header.Number > 0 THEN ""
    ELSE IF header.defect = "signer" THEN "ErrUnauthorized"
    ELSE IF header.defect = "seals" THEN "ErrInvalidCommittedSeals"
    ELSE ""

\* Engine.verifyHeader
verifyHeader(header) ==
    IF header.defect = "future" THEN "ErrFutureBlock"
    ELSE IF header.defect = "extra" THEN "ErrInvalidExtraDataFormat"
    ELSE IF header.defect = "nonce" THEN "ErrInvalidNonce"
    ELSE IF header.defect = "mixDigest" THEN "ErrInvalidMixDigest"
    ELSE IF header.Coinbase = ZeroAddress /\ header.Number > 0
         THEN IF header.Difficulty # Some(EmptyBlockDifficulty)
              THEN "ErrInvalidDifficulty"
              ELSE verifyCascadingFields(header)
         ELSE IF header.Difficulty # Some(DefaultDifficulty)
              THEN "ErrInvalidDifficulty"
              ELSE verifyCascadingFields(header)

\* Engine.Prepare: refused for a zero coinbase above the genesis and for an
\* unknown parent; sets the difficulty of normal blocks
Prepare(header) ==
    IF header.Coinbase = ZeroAddress /\ header.Number > 0
    THEN [header |-> header, err |-> "not a normal block"]
    ELSE IF ~parentKnown(header)
    THEN [header |-> sealFields(header), err |-> "ErrUnknownAncestor"]
    ELSE [header |-> [sealFields(header) EXCEPT !.Difficulty = Some(DefaultDifficulty)],
          err |-> ""]

hstep(op) ==
    /\ last' = op
    /\ UNCHANGED <<state, blockNumber, saved, registered, steps>>
    /\ UNCHANGED voteVars
    /\ UNCHANGED loopVars
    /\ UNCHANGED instanceVars
    /\ UNCHANGED blockVars
    /\ UNCHANGED minerVars

\* the header at hand: the one of the last step, a fresh one at the start
newHeader ==
    [Number |-> 0, Coinbase |-> self, Difficulty |-> Nil, votes |-> << >>,
     defect |-> "none"]

currentHeader == IF "header" \in DOMAIN last THEN last.header ELSE newHeader

\* whoever builds the header, the local worker or a remote peer, sets one of
\* its fields
SetHeaderField ==
    \E header \in
          {[currentHeader EXCEPT !.Number = n] : n \in 0..MaxHeight}
          \cup {[currentHeader EXCEPT !.Coinbase = c] : c \in {ZeroAddress, self}}
          \cup {[currentHeader EXCEPT !.Difficulty = d] :
                    d \in {Nil, Some(DefaultDifficulty), Some(EmptyBlockDifficulty)}}
          \cup {[currentHeader EXCEPT !.votes = v] : v \in VoteLists}
          \cup {[currentHeader EXCEPT !.defect = d] : d \in HeaderDefects} :
        hstep([op |-> "header", header |-> header, err |-> ""])

\* the header is verified
VerifyHeader ==
    hstep([op |-> "verifyHeader", header |-> currentHeader,
           err |-> verifyHeader(currentHeader)])

\* the worker prepares the header of a normal block it is about to build
PrepareHeader ==
    \E r \in {Prepare(currentHeader)} :
        hstep([op |-> "Prepare", header |-> r.header, err |-> r.err])

\* the worker prepares the header of an empty block for the votes it holds
PrepareEmptyHeader ==
    \E messages \in VoteLists :
        \E r \in {PrepareEmpty(currentHeader, messages)} :
            hstep([op |-> "PrepareEmpty", header |-> r.header, err |-> r.err])

NextHeader ==
    \/ SetHeaderField
    \/ VerifyHeader
    \/ PrepareHeader
    \/ PrepareEmptyHeader

SpecHeader == InitVote /\ [][NextHeader]_vars

----------------------------------------------------------------------------
(* Finalization of empty blocks by the consensus engine: Finalize for a    *)
(* header that was verified on import, FinalizeAndAssemble for a header    *)
(* the worker prepared                                                     *)

MaxFinalized == 2

\* a slice expression with a low bound beyond the length ended the process
crashed == last.op = "panic"

RECURSIVE lowered(_, _, _)
\* the loop of SubValidatorCoefficient over a list of validators
lowered(c, addrs, coe) ==
    IF addrs = << >> THEN c
    ELSE lowered([c EXCEPT ![Head(addrs)] = SubCoefficientValue(@, coe)], Tail(addrs), coe)

RECURSIVE raised(_, _)
\* the loop of AddValidatorCoefficient over a list of validators
raised(c, addrs) ==
    IF addrs = << >> THEN c
    ELSE raised([c EXCEPT ![Head(addrs)] = VALIDATOR_COEFFICIENT], Tail(addrs))

\* the empty-block branch of Finalize and of FinalizeAndAssemble on the
\* coefficients: the validators whose turn it was are lowered by 20, then
\* the slice expression voters[1:] is evaluated, which is a runtime error
\* for a list without elements, and every voter but the first is raised
finalizeEmpty(c, random11Validators, voters) ==
    IF Len(voters) < 1
    THEN [panic |-> TRUE, coeff |-> lowered(c, random11Validators, 20)]
    ELSE [panic |-> FALSE,
          coeff |-> raised(lowered(c, random11Validators, 20), Tail(voters))]

fstep(fn, r, header) ==
    /\ steps < MaxFinalized
    /\ ~crashed
    /\ steps' = steps + 1
    /\ coeff' = r.coeff
    /\ last' = IF r.panic THEN [op |-> "panic", fn |-> fn, header |-> header]
               ELSE [op |-> fn, header |-> header, err |-> ""]
    /\ UNCHANGED <<state, blockNumber, saved, registered>>
    /\ UNCHANGED <<proofs, head, isEmpty, targetWeightBalance, cacheHeight, resultCh,
                   sealed, cstakers, pool, events, voteIndex>>
    /\ UNCHANGED loopVars
    /\ UNCHANGED instanceVars
    /\ UNCHANGED blockVars
    /\ UNCHANGED minerVars

\* the block of an empty header that verification accepted is processed:
\* Finalize recovers the senders of its vote messages
FinalizeVerified ==
    /\ last.op = "verifyHeader" /\ last.err = ""
    /\ last.header.Coinbase = ZeroAddress /\ last.header.Number > 0
    /\ \E random11Validators \in UpToOne(VoteValidators) :
        fstep("Finalize",
              finalizeEmpty(coeff, random11Validators, last.header.votes),
              last.header)

\* the worker assembles the empty block of the header it prepared: the
\* validators of the header extra are the voters it handed to PrepareEmpty
FinalizeAndAssembleEmpty ==
    /\ last.op = "PrepareEmpty" /\ last.err = ""
    /\ \E random11Validators \in UpToOne(VoteValidators) :
        fstep("FinalizeAndAssemble",
              finalizeEmpty(coeff, random11Validators, last.header.votes),
              last.header)

\* the worker prepares an empty header for the votes it holds, its own
\* among them
PrepareVotedHeader ==
    /\ ~crashed
    /\ \E messages \in VoteLists \ {<< >>} :
        \E r \in {PrepareEmpty(currentHeader, messages)} :
            hstep([op |-> "PrepareEmpty", header |-> r.header, err |-> r.err])

\* the steps of a header on its way to finalization
BuildHeader == ~crashed /\ SetHeaderField

ImportHeader == ~crashed /\ VerifyHeader

NextFinalize ==
    \/ BuildHeader
    \/ ImportHeader
    \/ PrepareVotedHeader
    \/ FinalizeVerified
    \/ FinalizeAndAssembleEmpty

InitFinalize ==
    /\ InitState
    /\ InitWorker(ValidatorPool, [v \in VoteValidators |-> VALIDATOR_COEFFICIENT])

SpecFinalize == InitFinalize /\ [][NextFinalize]_vars

----------------------------------------------------------------------------
(* Verification of the committed seals of a header against a validator set *)

MaxSeals == 3

\* the validators a set can hold, and an address that is in no set
SealValidators == {11, 12, 13, 15}
NonValidators == {14}

\* the committed seals of a header, each given by the address it recovers
\* to, nil for a seal from which no address is recovered
SealLists ==
    UNION {[1..n -> {Some(a) : a \in SealValidators \cup NonValidators} \cup {Nil}] :
              n \in 0..MaxSeals}

\* Engine.Signers: the addresses recovered from the seals
Signers(seals) == [i \in 1..Len(seals) |-> Deref(seals[i])]

\* istanbul.ValidatorSet.F: the number of faulty validators a set of this
\* size tolerates, ceil(size / 3) - 1
F(validators) == (Cardinality(validators) + 2) \div 3 - 1

\* a loop over the committers that counts every one found in the set,
\* without removing it from the copy
RECURSIVE countSealsKeeping(_, _)
countSealsKeeping(committers, validatorsCpy) ==
    IF committers = << >> THEN 0
    ELSE IF Head(committers) \in validatorsCpy
         THEN Bind([rest \in {countSealsKeeping(Tail(committers), validatorsCpy)} |->
                  IF rest < 0 THEN rest ELSE rest + 1])
         ELSE -1

\* the loop of verifyCommittedSeals over the committers: each is removed
\* from the copy of the validator set and counted; -1 as soon as one is not
\* in the copy
RECURSIVE countSeals(_, _)
countSeals(committers, validatorsCpy) ==
    IF committers = << >> THEN 0
    ELSE IF Head(committers) \in validatorsCpy
         THEN Bind([rest \in {countSeals(Tail(committers),
                                         validatorsCpy \ {Head(committers)})} |->
                  IF rest < 0 THEN rest ELSE rest + 1])
         ELSE -1

\* Engine.verifyCommittedSeals
verifyCommittedSeals(header, seals, validators) ==
    IF header.Number = 0 THEN ""
    ELSE IF header.Coinbase = ZeroAddress /\ header.Number > 0 THEN ""
    ELSE IF seals = << >> THEN "ErrEmptyCommittedSeals"
    ELSE IF \E i \in 1..Len(seals) : seals[i] = Nil THEN "ErrInvalidSignature"
    ELSE Bind([validSeal \in {countSeals(Signers(seals), validators)} |->
             IF validSeal < 0 THEN "ErrInvalidCommittedSeals"
             ELSE IF validSeal <= F(validators) THEN "ErrInvalidCommittedSeals"
             ELSE ""])

\* Engine.verifyHeader for a header given with its committed seals: the
\* seals are the last thing verifyCascadingFields checks
verifySealedHeader(header, seals, validators) ==
    Bind([err \in {verifyHeader(header)} |->
        IF err # "" THEN err ELSE verifyCommittedSeals(header, seals, validators)])

\* the headers whose seals are given explicitly
SealedHeaders ==
    [Number : 0..1, Coinbase : {ZeroAddress, self},
     Difficulty : {Some(DefaultDifficulty), Some(EmptyBlockDifficulty)},
     votes : {<< >>}, defect : {"none", "signer"}]

\* the header at hand is verified against the validator set of its height
VerifySealedHeader ==
    /\ last.op = "sealedHeader"
    /\ last' = [op |-> "verifySealedHeader", header |-> last.header,
                seals |-> last.seals, validators |-> last.validators,
                err |-> verifySealedHeader(last.header, last.seals, last.validators)]
    /\ UNCHANGED <<state, blockNumber, saved, registered, steps>>
    /\ UNCHANGED voteVars
    /\ UNCHANGED loopVars
    /\ UNCHANGED instanceVars
    /\ UNCHANGED blockVars
    /\ UNCHANGED minerVars

NextSeals == VerifySealedHeader

\* a header has arrived with its seals, at a height with some validator set
InitSeals ==
    /\ state = NewStateDB
    /\ blockNumber = 1
    /\ saved = << >>
    /\ \E header \in SealedHeaders : \E seals \in SealLists :
       \E validators \in SUBSET SealValidators :
           last = [op |-> "sealedHeader", header |-> header, seals |-> seals,
                   validators |-> validators]
    /\ registered = {}
    /\ steps = 0
    /\ recorded = Nil
    /\ other = Nil
    /\ shared = {}
    /\ txpool = {}
    /\ emptyBlocks = << >>
    /\ results = NoResults
    /\ work = NoWork
    /\ InitWorker([Validators |-> << >>], << >>)

SpecSeals == InitSeals /\ [][NextSeals]_vars

-----------------------------------------------------------------------------
(* resultLoop: sealed results are written, announced and tracked *)

MaxDeliveries == 5

\* staleThreshold is the maximum depth of the acceptable stale block
staleThreshold == 7

\* the sealed blocks a result can carry; the first two are the same task
\* sealed twice ("Different block could share same sealhash")
ResultBlocks ==
    { [hash |-> 1, sealhash |-> 1, number |-> 1],
      [hash |-> 2, sealhash |-> 1, number |-> 1],
      [hash |-> 3, sealhash |-> 2, number |-> 2] }

\* the tasks taskLoop can hand to the engine, by seal hash
ResultTasks == { [sealhash |-> b.sealhash, number |-> b.number] : b \in ResultBlocks }

\* the heights newWorkLoop passes to clearPending
HeadNumbers == {2, 1 + staleThreshold, 2 + staleThreshold}

\* BlockChain.HasBlock: the block is in the database
HasBlock(chain, hash) == hash \in chain

\* BlockChain.WriteBlockWithState: the block is in the database unless the
\* write fails
WriteBlockWithState(chain, block, fails) ==
    IF fails THEN chain ELSE chain \cup {block.hash}

\* w.pendingTasks[sealhash], exist
pendingTask(pendingTasks, sealhash) ==
    \E t \in pendingTasks : t.sealhash = sealhash

\* taskLoop: w.pendingTasks[sealHash] = task
registerTask(r, task) ==
    [r EXCEPT !.pendingTasks =
        {t \in r.pendingTasks : t.sealhash # task.sealhash} \cup {task}]

\* clearPending cleans the stale pending tasks
clearPending(r, number) ==
    [r EXCEPT !.pendingTasks =
        {t \in r.pendingTasks : ~(t.number + staleThreshold <= number)}]

\* resultLoop that writes whatever the engine hands back
resultLoopUnchecked(r, block, fails) ==
    IF block = Nil THEN r
    ELSE IF ~pendingTask(r.pendingTasks, Deref(block).sealhash) THEN r
    ELSE IF fails THEN r
    ELSE [r EXCEPT
            !.chain = WriteBlockWithState(r.chain, Deref(block), fails),
            !.written = Append(r.written, Deref(block).hash),
            !.mined = Append(r.mined, Deref(block).hash),
            !.unconfirmed = Append(r.unconfirmed,
                                   <<Deref(block).number, Deref(block).hash>>)]

\* resultLoop, case block := <-w.resultCh
resultLoop(r, block, fails) ==
    IF block = Nil THEN r
    ELSE IF HasBlock(r.chain, Deref(block).hash) THEN r
    ELSE IF ~pendingTask(r.pendingTasks, Deref(block).sealhash) THEN r
    ELSE IF fails THEN r
    ELSE [r EXCEPT
            !.chain = WriteBlockWithState(r.chain, Deref(block), fails),
            !.written = Append(r.written, Deref(block).hash),
            !.mined = Append(r.mined, Deref(block).hash),
            !.unconfirmed = Append(r.unconfirmed,
                                   <<Deref(block).number, Deref(block).hash>>)]

resultFrame ==
    /\ steps < MaxDeliveries
    /\ steps' = steps + 1
    /\ UNCHANGED <<state, blockNumber, saved, registered, work>>
    /\ UNCHANGED voteVars
    /\ UNCHANGED instanceVars
    /\ UNCHANGED blockVars
    /\ UNCHANGED loopVars

\* taskLoop hands a task to the engine
ResultTask ==
    /\ \E task \in ResultTasks :
        /\ results' = registerTask(results, task)
        /\ last' = [op |-> "task", task |-> task]
    /\ resultFrame

\* the engine delivers a sealed block, or nothing, on resultCh
ResultDelivered ==
    /\ \E block \in {Some(b) : b \in ResultBlocks} \cup {Nil} :
       \E fails \in BOOLEAN :
        /\ results' = resultLoop(results, block, fails)
        /\ last' = [op |-> "resultLoop", block |-> block, fails |-> fails,
                    before |-> results]
    /\ resultFrame

\* a block received from the network is inserted into the chain
ResultImport ==
    /\ \E b \in ResultBlocks :
        /\ ~HasBlock(results.chain, b.hash)
        /\ results' = [results EXCEPT !.chain = @ \cup {b.hash}]
        /\ last' = [op |-> "import", block |-> b]
    /\ resultFrame

\* newWorkLoop, on a start or a new head
ResultClearPending ==
    /\ \E number \in HeadNumbers :
        /\ results' = clearPending(results, number)
        /\ last' = [op |-> "clearPending", number |-> number]
    /\ resultFrame

NextResult ==
    \/ ResultTask
    \/ ResultDelivered
    \/ ResultImport
    \/ ResultClearPending

SpecResult == Init /\ [][NextResult]_vars

-----------------------------------------------------------------------------
(* commitNewWork: the pending transactions are applied until interrupted *)

MaxWorkTxs == 2
MaxRestarts == 1

commitInterruptNone == 0
commitInterruptNewHead == 1
commitInterruptResubmit == 2

\* what commitTransaction answers for a transaction; "protected" is a replay
\* protected transaction before EIP155, which is not executed at all
TxOutcomes ==
    {"nil", "ErrGasLimitReached", "ErrNonceTooLow", "ErrNonceTooHigh",
     "ErrTxTypeNotSupported", "failed", "protected"}

\* the transactions of one account, in nonce order
RECURSIVE TxLists(_)
TxLists(n) ==
    IF n = 0 THEN {<< >>}
    ELSE TxLists(n - 1) \cup
         {Append(l, o) : l \in {k \in TxLists(n - 1) : Len(k) = n - 1}, o \in TxOutcomes}

\* the block gas limit, in transactions of params.TxGas
WorkGasLimits == {1, MaxWorkTxs + 1}

\* TransactionsByPriceAndNonce over one account: Peek is the head, Shift
\* moves to the next transaction of the account, Pop drops the account
Peek(txs) == Head(txs)
Shift(txs) == Tail(txs)
Pop(txs) == << >>

\* worker.commit: the block is assembled from the transactions applied so far
\* and handed to taskLoop if the engine assembles it and the worker is running
commit(w, final, assembled, started) ==
    [w EXCEPT
        !.commits = IF final THEN Append(@, w.applied) ELSE @,
        !.submitted = IF assembled /\ started THEN Append(@, w.applied) ELSE @]

\* commitNewWork after a call of commitTransactions has returned
returned(w, discard) ==
    IF discard THEN [w EXCEPT !.phase = "discarded"]
    ELSE IF w.phase = "local" /\ Len(w.remoteTxs) > 0
         THEN [w EXCEPT !.phase = "remote", !.pc = "check", !.txs = w.remoteTxs]
         ELSE [w EXCEPT !.phase = "commit"]

\* a check that hands every interrupted work to the engine
checkInterruptSubmitting(interrupt) ==
    IF interrupt # Nil /\ Deref(interrupt) # commitInterruptNone
    THEN [return |-> TRUE, value |-> FALSE, seen |-> Deref(interrupt)]
    ELSE [return |-> FALSE, value |-> FALSE, seen |-> commitInterruptNone]

\* commitTransactions, the top of the loop: the interrupt signal ends the call,
\* with true for a new head
checkInterrupt(interrupt) ==
    IF interrupt # Nil /\ Deref(interrupt) # commitInterruptNone
    THEN [return |-> TRUE, value |-> Deref(interrupt) = commitInterruptNewHead,
          seen |-> Deref(interrupt)]
    ELSE [return |-> FALSE, value |-> FALSE, seen |-> commitInterruptNone]

\* commitTransactions, one pass of the loop up to the interrupt check
loopCheck(w) ==
    Bind([c \in {checkInterrupt(w.interrupt)} |->
        IF c.return
        THEN returned([w EXCEPT !.checks = @ + 1, !.seen = c.seen,
                                !.kept = w.applied], c.value)
        ELSE [w EXCEPT !.checks = @ + 1, !.pc = "body"]])

\* commitTransactions, the rest of the pass: the gas left, the next
\* transaction, its execution
loopBody(w) ==
    IF w.gasPool = 0 THEN returned([w EXCEPT !.bodies = @ + 1], FALSE)
    ELSE IF w.txs = << >> THEN returned([w EXCEPT !.bodies = @ + 1], FALSE)
    ELSE Bind([tx \in {Peek(w.txs)} |->
        CASE tx = "protected" ->
                [w EXCEPT !.bodies = @ + 1, !.pc = "check", !.txs = Pop(@)]
          [] tx = "ErrGasLimitReached" ->
                [w EXCEPT !.bodies = @ + 1, !.pc = "check", !.txs = Pop(@)]
          [] tx = "ErrNonceTooLow" ->
                [w EXCEPT !.bodies = @ + 1, !.pc = "check", !.txs = Shift(@)]
          [] tx = "ErrNonceTooHigh" ->
                [w EXCEPT !.bodies = @ + 1, !.pc = "check", !.txs = Pop(@)]
          [] tx = "nil" ->
                [w EXCEPT !.bodies = @ + 1, !.pc = "check", !.txs = Shift(@),
                          !.gasPool = @ - 1,
                          !.applied = Append(@, <<w.phase, Len(w.txs)>>)]
          [] tx = "ErrTxTypeNotSupported" ->
                [w EXCEPT !.bodies = @ + 1, !.pc = "check", !.txs = Pop(@)]
          [] OTHER ->
                [w EXCEPT !.bodies = @ + 1, !.pc = "check", !.txs = Shift(@)]])

\* commitNewWork up to the first call of commitTransactions
commitNewWork(interrupt, noempty, wNoempty, gasLimit, localTxs, remoteTxs, assembled, started, earlier) ==
    Bind([w \in {[phase |-> "commit", pc |-> "check", txs |-> << >>,
                  remoteTxs |-> remoteTxs, interrupt |-> interrupt,
                  gasLimit |-> gasLimit, pending |-> <<localTxs, remoteTxs>>,
                  earlier |-> earlier,
                  gasPool |-> gasLimit, applied |-> << >>, submitted |-> << >>,
                  commits |-> << >>, seen |-> commitInterruptNone,
                  kept |-> << >>, checks |-> 0, bodies |-> 0]} |->
      Bind([e \in {IF ~noempty /\ ~wNoempty
                   THEN commit(w, FALSE, assembled, started) ELSE w} |->
        IF Len(localTxs) + Len(remoteTxs) = 0 /\ ~wNoempty
        THEN [e EXCEPT !.phase = "done"]
        ELSE IF Len(localTxs) > 0
             THEN [e EXCEPT !.phase = "local", !.txs = localTxs]
             ELSE IF Len(remoteTxs) > 0
                  THEN [e EXCEPT !.phase = "remote", !.txs = remoteTxs]
                  ELSE e])])

workFrame ==
    /\ UNCHANGED <<state, blockNumber, saved, registered, steps, results>>
    /\ UNCHANGED voteVars
    /\ UNCHANGED instanceVars
    /\ UNCHANGED blockVars
    /\ UNCHANGED loopVars

\* mainLoop, case req := <-w.newWorkCh
WorkStart ==
    /\ work.phase = "idle"
    /\ \E interrupt \in {Nil, Some(commitInterruptNone)} :
       \E noempty \in BOOLEAN : \E wNoempty \in BOOLEAN :
       \E gasLimit \in WorkGasLimits :
       \E localTxs \in TxLists(MaxWorkTxs) : \E remoteTxs \in TxLists(MaxWorkTxs - 1) :
       \E assembled \in BOOLEAN : \E started \in BOOLEAN :
        /\ work' = commitNewWork(interrupt, noempty, wNoempty, gasLimit,
                                 localTxs, remoteTxs, assembled, started, << >>)
        /\ last' = [op |-> "commitNewWork"]
    /\ workFrame

\* mainLoop, the request that follows a new head: the transactions of the
\* discarded work are pending still
WorkRestart ==
    /\ work.phase = "discarded"
    /\ Len(work.earlier) < MaxRestarts
    /\ \E noempty \in BOOLEAN : \E wNoempty \in BOOLEAN :
       \E assembled \in BOOLEAN : \E started \in BOOLEAN :
        /\ work' = commitNewWork(Some(commitInterruptNone), noempty, wNoempty,
                                 work.gasLimit, work.pending[1], work.pending[2],
                                 assembled, started,
                                 Append(work.earlier,
                                        [seen |-> work.seen,
                                         applied |-> work.applied,
                                         submitted |-> work.submitted]))
        /\ last' = [op |-> "commitNewWork"]
    /\ workFrame

\* newWorkLoop, commit: the signal is stored in the notifier of the work in
\* flight, which is then replaced by a fresh one
WorkInterrupt ==
    /\ work.phase \in {"local", "remote", "commit"}
    /\ work.interrupt = Some(commitInterruptNone)
    /\ \E s \in {commitInterruptNewHead, commitInterruptResubmit} :
        /\ work' = [work EXCEPT !.interrupt = Some(s)]
        /\ last' = [op |-> "interrupt", signal |-> s]
    /\ workFrame

WorkCheck ==
    /\ work.phase \in {"local", "remote"}
    /\ work.pc = "check"
    /\ work' = loopCheck(work)
    /\ last' = [op |-> "check"]
    /\ workFrame

WorkBody ==
    /\ work.phase \in {"local", "remote"}
    /\ work.pc = "body"
    /\ work' = loopBody(work)
    /\ last' = [op |-> "body"]
    /\ workFrame

\* commitNewWork, the closing w.commit(uncles, w.fullTaskHook, true, tstart)
WorkCommit ==
    /\ work.phase = "commit"
    /\ \E assembled \in BOOLEAN : \E started \in BOOLEAN :
        /\ work' = [commit(work, TRUE, assembled, started) EXCEPT !.phase = "done"]
        /\ last' = [op |-> "commit", assembled |-> assembled, started |-> started]
    /\ workFrame

NextWork ==
    \/ WorkStart
    \/ WorkRestart
    \/ WorkInterrupt
    \/ WorkCheck
    \/ WorkBody
    \/ WorkCommit

SpecWork == Init /\ [][NextWork]_vars

\* C1: after RevertToSnapshot(id) the account state equals the account state
\* observed right after the Snapshot() call that returned id
C1_RevertRestoresSnapshotState ==
    last.op = "RevertToSnapshot" => AccountState(state) = saved[last.id]

\* a committed transaction of the last step
lastTx(l) == l.op = "commitTransaction"

\* C2: when a custom instruction (types 1 to 5) fails, the account state after
\* the transaction equals the account state before it
C2_FailedInstructionLeavesNoChange ==
    [][(lastTx(last') /\ last'.tx.w.Type \in 1..5 /\ last'.err # "")
        => AccountState(state') = AccountState(state)]_vars

\* C5: a registration that fails because the proxy is in use leaves the state
\* as it was before the call of ResetMinerBecome
C5_FailedRegistrationChangesNothing ==
    (lastTx(last) /\ last.reset.called /\ last.reset.err = "cannot have the same proxy")
        => last.reset.after = last.reset.before

\* C6: the registry lists every address at most once, and no validator's
\* non-zero proxy is the address or the proxy of another validator
C6_RegistryProxiesDistinct ==
    LET list == registry(state)
    IN  \A i \in 1..Len(list) : \A j \in 1..Len(list) :
            i # j => /\ list[i].Addr # list[j].Addr
                     /\ list[i].Proxy # ZeroAddress =>
                            /\ list[i].Proxy # list[j].Addr
                            /\ list[i].Proxy # list[j].Proxy

\* C7: the coefficient of an address that has been registered as a validator
\* is between 1 and 70
C7_CoefficientInRange ==
    \A a \in registered :
        /\ coefficientOf(state, a) >= 1
        /\ coefficientOf(state, a) <= VALIDATOR_COEFFICIENT

C7_Witness ==
    \E a \in registered :
        /\ coefficientOf(state, a) < VALIDATOR_COEFFICIENT
        /\ last.op = "Finalize"

\* a validator withdrew its whole own stake in the last step
fullSelfWithdrawal(l) ==
    /\ lastTx(l) /\ l.tx.w.Type = 4 /\ l.err = ""
    /\ l.tx.from = l.tx.to
    /\ l.wasValidator
    /\ l.tx.value = l.pledged

\* C8: a validator with coefficient c < 70 that withdraws its whole own stake
\* forfeits (70 - c) * 10^17 wei to the burn address and is credited the rest
C8_WithdrawalPunishment ==
    [][(fullSelfWithdrawal(last') /\ last'.coe < VALIDATOR_COEFFICIENT)
        => LET forfeited == balanceOf(state', ZeroAddress) - balanceOf(state, ZeroAddress)
               credited == balanceOf(state', last'.tx.from) - balanceOf(state, last'.tx.from)
           IN  /\ forfeited = (VALIDATOR_COEFFICIENT - last'.coe) * coebaseErb
               /\ credited = last'.tx.value - forfeited]_vars

C8_Witness ==
    /\ fullSelfWithdrawal(last)
    /\ last.coe < VALIDATOR_COEFFICIENT
    /\ balanceOf(state, ZeroAddress) > 0

\* C9: the balance and the pledged balance of every account are not negative
C9_BalancesNonNegative ==
    \A a \in Addresses :
        /\ balanceOf(state, a) >= 0
        /\ wormOf(state, a).PledgedBalance >= 0

\* a block reward was shared with a delegator in the last step
C9_Witness ==
    /\ last.op = "Finalize"
    /\ \E i \in 1..Len(last.rewarded) :
           \E j \in 1..Len(wormOf(state, last.rewarded[i]).ValidatorExtension) :
               wormOf(state, last.rewarded[i]).ValidatorExtension[j].Addr # last.rewarded[i]
    /\ \E a \in Users : balanceOf(state, a) < InitialBalance

\* a plain value transfer succeeded in the last step
plainTransfer(l) == lastTx(l) /\ l.tx.w.Type = 0 /\ l.err = ""

\* C10: a plain transfer of v moves exactly v from the sender to the recipient,
\* keeps the sum of all balances, and changes no other account and no pledge,
\* ownership or registry record
C10_TransferConservesBalances ==
    [][plainTransfer(last')
        => LET tx == last'.tx
           IN  /\ \A a \in Addresses :
                      balanceOf(state', a) = balanceOf(state, a)
                          - (IF a = tx.from THEN tx.value ELSE 0)
                          + (IF a = tx.to THEN tx.value ELSE 0)
               /\ totalBalance(state') = totalBalance(state)
               /\ \A a \in Addresses \ {tx.from, tx.to} :
                      accountAt(state', a) = accountAt(state, a)
               /\ \A a \in {tx.from, tx.to} : wormOf(state', a) = wormOf(state, a)
               /\ registry(state') = registry(state)]_vars

C10_Witness ==
    /\ plainTransfer(last)
    /\ last.tx.from = last.tx.to
    /\ last.tx.value > 0

RECURSIVE voteWeight(_, _, _)
\* the coefficient-weighted stake of a list of voters
voteWeight(sl, coe, voters) ==
    IF voters = << >> THEN 0
    ELSE StakeBalance(sl, Head(voters)) * coe[Head(voters)]
             + voteWeight(sl, coe, Tail(voters))

\* the total weighted stake T of the validator pool
TotalWeightedStake == totalWeight(pool, coeff, Len(pool.Validators))

\* the watchdog handled, while voting, a vote result for head + 1
votingResult(l) ==
    /\ l.op = "signatureResult"
    /\ l.voting
    /\ l.rs.Height = l.head + 1

\* C3: with T the total weighted stake, the watchdog handling a vote result
\* for the target height starts sealing exactly when the accumulated weight
\* of the voters is strictly above T/2, never while it is at most T/2
C3_SealsExactlyAboveHalf ==
    [][votingResult(last')
        => (last'.sealing <=>
                2 * voteWeight(pool, coeff, last'.rs.OnlineValidators)
                    > TotalWeightedStake)]_vars

distinct(list) == \A i, j \in 1..Len(list) : i # j => list[i] # list[j]

\* a vote arrived for a height whose proof state already lists the voter
duplicateVote(l, ps) ==
    /\ l.op = "GatherOtherPeerSignature"
    /\ l.height \in DOMAIN ps
    /\ Has(ps[l.height].onlineValidator, l.validator)

\* C4: a vote of a validator already counted for the height is rejected and
\* changes neither the accumulated weight, the voters nor the stored
\* messages; every proof state counts each of its voters exactly once
C4_DuplicateVoteRejected ==
    /\ [](\A h \in DOMAIN proofs :
            /\ distinct(proofs[h].onlineValidator)
            /\ Len(proofs[h].emptyBlockMessages) = Len(proofs[h].onlineValidator)
            /\ proofs[h].receiveValidatorsSum =
                   voteWeight(pool, [v \in VoteValidators |->
                                        DEFAULT_VALIDATOR_COEFFICIENT],
                              proofs[h].onlineValidator))
    /\ [][duplicateVote(last', proofs)
            => /\ last'.err = "GatherOtherPeerSignature: validator exist"
               /\ proofs' = proofs
               /\ resultCh' = resultCh]_vars

C4_Witness ==
    /\ last.op = "GatherOtherPeerSignature"
    /\ last.err = "GatherOtherPeerSignature: validator exist"
    /\ Has(proofs[last.height].onlineValidator, last.validator)

\* the values kept by journal entries: an account that does not exist, or a
\* record that is not allocated, reads as the empty account or record
journalled(acc) ==
    IF acc = Nil
    THEN [Nonce |-> 0, Balance |-> 0, Worm |-> EmptyWorm, Csbt |-> EmptyCsbt,
          Staker |-> EmptyStaker]
    ELSE [Nonce |-> Deref(acc).Nonce, Balance |-> Deref(acc).Balance,
          Worm |-> IF Deref(acc).Worm = Nil THEN EmptyWorm ELSE Deref(Deref(acc).Worm),
          Csbt |-> IF Deref(acc).Csbt = Nil THEN EmptyCsbt ELSE Deref(Deref(acc).Csbt),
          Staker |-> IF Deref(acc).Staker = Nil THEN EmptyStaker
                     ELSE Deref(Deref(acc).Staker)]

journalledState(accounts) == [a \in Addresses |-> journalled(accounts[a])]

\* the revision with the given id among the valid revisions
revisionOf(db, revid) ==
    db.validRevisions[CHOOSE i \in 1..Len(db.validRevisions) :
                          db.validRevisions[i].id = revid]

\* C11: RevertToSnapshot(id) leaves the journal as it was when Snapshot()
\* returned id, every journalled value has the value it had then (the later
\* entries are undone newest first), and exactly the revisions older than id
\* stay valid, whatever the number of revisions taken before and after id
C11_RevertUndoesLaterEntries ==
    [][last'.op = "RevertToSnapshot"
        => /\ state'.journal =
                  SubSeq(state.journal, 1, revisionOf(state, last'.id).journalIndex)
           /\ journalledState(AccountState(state')) = journalledState(saved[last'.id])
           /\ state'.validRevisions =
                  SelectSeq(state.validRevisions, LAMBDA r : r.id < last'.id)]_vars

\* a revert across an inner revision that undoes at least two entries
C11_Witness ==
    /\ last.op = "RevertToSnapshot"
    /\ last.entries >= Len(state.journal) + 2
    /\ last.revisions >= Len(state.validRevisions) + 2
    /\ Len(state.validRevisions) >= 1

\* a revision id that Snapshot returned and no revert or Finalise dropped
currentlyValid(db, revid) ==
    \E i \in 1..Len(db.validRevisions) : db.validRevisions[i].id = revid

\* C12: a call of RevertToSnapshot with a revision id that is not currently
\* valid (never allocated, dropped by an earlier revert, or dropped by
\* Finalise) panics, no account and no journal entry is changed by it, and
\* the aborted process takes no further step; a call with a valid id does
\* not panic.
C12_InvalidRevertAborts ==
    [][/\ ~aborted
       /\ (last'.op \in {"RevertToSnapshot", "panic"}
            => IF currentlyValid(state, last'.id)
               THEN last'.op = "RevertToSnapshot"
               ELSE /\ last'.op = "panic"
                    /\ AccountState(state') = AccountState(state)
                    /\ state' = state)]_vars

\* a revert to a revision that Finalise dropped has panicked
C12_Witness ==
    /\ aborted
    /\ last.allocated
    /\ state.validRevisions = << >>
    /\ state.journal = << >>
    /\ state.stateObjectsDirty # {}
    /\ state.nextRevisionId > 0

\* C13: after every call of Finalise the journal is empty and the refund
\* counter is zero, whatever the instance went through before, a Copy included.
C13_FinaliseClearsJournalAndRefund ==
    [][last'.op = "Finalise" => state'.journal = << >> /\ state'.refund = 0]_vars

\* C14: when an error has been handed to setError at any time from the
\* opening of the instance to the end of a Commit call, the flush done by
\* that call included, the call returns an error, and it reports the first
\* error recorded.
C14_CommitReturnsFirstError ==
    [][last'.op = "Commit" /\ recorded' # Nil
          => last'.err = Some([fn |-> "Commit", cause |-> Deref(recorded')])]_vars

\* C15: when the retrieval of a state object reads a stored record that does
\* not decode, the failure becomes the remembered error of the instance (so
\* that the next Commit fails).
C15_DecodeFailureIsRecorded ==
    [][(/\ last'.op = "Exist"
        /\ ~last'.live
        /\ last'.addr \in (DOMAIN state.trie \cap state.undecodable) \ state.trieFaults)
            => state'.dbErr # Nil]_vars

\* what a client can observe of an instance: the accounts with all their
\* records (the validator registry, the staker and pledge lists among them)
\* and the refund counter
observable(db) == [accounts |-> AccountState(db), refund |-> db.refund]

C17_EmptyBlockHasNoTransactions ==
    \A i \in 1..Len(emptyBlocks) :
        /\ emptyBlocks[i].header.Coinbase = ZeroAddress
        /\ emptyBlocks[i].txs = << >>

\* the header has the zero coinbase and is above the genesis
emptyHeader(header) == header.Coinbase = ZeroAddress /\ header.Number > 0

\* C19: header verification accepts a header with the zero coinbase above
\* the genesis only if its difficulty is 24, and a header with a coinbase
\* only if its difficulty is the constant of normal blocks; a header that
\* PrepareEmpty accepted has the first value, one that Prepare accepted the
\* second.
C19_DifficultyMatchesBlockKind ==
    /\ (last.op = "verifyHeader" /\ last.err = "")
            => /\ emptyHeader(last.header)
                    => last.header.Difficulty = Some(EmptyBlockDifficulty)
               /\ last.header.Coinbase # ZeroAddress
                    => last.header.Difficulty = Some(DefaultDifficulty)
    /\ (last.op = "PrepareEmpty" /\ last.err = "")
            => /\ last.header.Coinbase = ZeroAddress
               /\ last.header.Difficulty = Some(EmptyBlockDifficulty)
               /\ verifyHeader(last.header) # "ErrInvalidDifficulty"
    /\ (last.op = "Prepare" /\ last.err = "")
            => /\ last.header.Difficulty = Some(DefaultDifficulty)
               /\ verifyHeader(last.header) # "ErrInvalidDifficulty"

\* a header with the zero coinbase above the genesis was accepted
C19_Witness ==
    /\ last.op = "verifyHeader"
    /\ last.err = ""
    /\ emptyHeader(last.header)
    /\ last.header.Difficulty = Some(EmptyBlockDifficulty)

\* C20: header verification accepts a header with the zero coinbase above
\* the genesis only if the weighted stake of the validators whose votes it
\* carries is more than half of the weighted stake of all validators.
C20_EmptyHeaderNeedsVoteMajority ==
    (last.op = "verifyHeader" /\ last.err = "" /\ emptyHeader(last.header))
        => 2 * voteWeight(pool, coeff, last.header.votes) > TotalWeightedStake

receivedSum(ps, height) ==
    IF height \in DOMAIN ps THEN ps[height].receiveValidatorsSum ELSE 0

\* C21: every accepted vote raises the weight accumulated for its height by
\* the stake of the voter times the voter's own current coefficient, the
\* weighting from which the total weighted stake is computed.
C21_VoteWeighsOwnCoefficient ==
    [][(last'.op = "GatherOtherPeerSignature" /\ last'.err = "")
          => receivedSum(proofs', last'.height)
                 = receivedSum(proofs, last'.height)
                       + StakeBalance(Deref(cstakers), last'.validator)
                             * coeff[last'.validator]]_vars

\* C23: an empty block is sealed on a vote result only for the height that
\* follows the chain head: every empty block the watchdog sealed stands at
\* the height its votes were cast for, so that votes for a height at or
\* below the head never lead to a sealing.
C23_SealsOnlyForNextHeight ==
    \A i \in 1..Len(emptyBlocks) :
        emptyBlocks[i].header.Number = emptyBlocks[i].votedHeight

\* the database on which ApplyTransaction runs Call for a transaction that
\* commitTransaction applies to db
callInput(db, tx) ==
    Bind([d \in {Snapshot(db).db} |-> SetNonce(d, tx.from, GetNonce(d, tx.from) + 1)])

\* the accounts that have a state object, loaded or still to be loaded
objectSet(db) == DOMAIN db.stateObjects \cup DOMAIN db.trie

\* the errors of the balance and ownership checks of the custom instructions
PreconditionErrors == {"ErrInsufficientBalance", "ErrNotOwner", "ErrNotMoreThan100ERB"}

\* C26: a custom instruction (types 1 to 5) that a balance or ownership
\* check rejects returns from Call with the journal as long as it was and
\* with the same set of state objects as when Call was entered.
C26_RejectedCallJournalsNothing ==
    [][(lastTx(last') /\ last'.tx.w.Type \in 1..5 /\ last'.err \in PreconditionErrors)
          => \A pre \in {callInput(state, last'.tx)} :
             \A r \in {Call(pre, last'.tx.from, last'.tx.to, last'.tx.w, last'.tx.value,
                            blockNumber)} :
                /\ r.err = last'.err
                /\ Len(r.db.journal) = Len(pre.journal)
                /\ objectSet(r.db) = objectSet(pre)]_vars

\* C22: the vote handler returns with its mutex released on every path, the
\* rejection of a duplicate vote included, so that the votes that follow are
\* still processed.
C22_HandlerReleasesLock ==
    last.op = "GatherOtherPeerSignature" => ~lock

\* C27: at the checkpoint of the countdown (tick 15 for a validator of the
\* current height, tick 16 otherwise), the watchdog goes on to start the
\* vote unless more than 7 validators are online for the next height, in
\* which case it keeps counting (the validator pool being readable and the
\* local node in it)
C27_CheckpointStartsVoteUnlessOnlineExceeds ==
    (/\ last.op = "emptyTimer"
     /\ last.by = "emptyLoop"
     /\ last.checkpoint
     /\ last.outcome \notin {"poolError", "notValidator"})
        => /\ (last.online > onlineLimit => last.outcome = "online" /\ totalCondition > 0)
           /\ (~(last.online > onlineLimit) =>
                   last.outcome = "emptyCh" /\ pc["emptyLoop"] = "emptyCh")

\* the last step was the tick of emptyTimer that completes the 120-tick
\* ceiling, taken while the miner runs, the node is not voting and is in
\* the validator pool
ceilingTick ==
    /\ last.op = "emptyTimer"
    /\ last.by = "emptyLoop"
    /\ last.ceiling
    /\ GetValidatorAddr(pool, self) # ZeroAddress

headEventSignalsReset ==
    \/ resetEmptyCh' = resetEmptyCh + 1
    \/ pc'["newWorkLoop"] = "resetEmptyCh"

\* the watchdog after a reset: the count is 0, the node is not voting and
\* the one-second timer is armed
watchdogReset ==
    /\ totalCondition' = 0
    /\ ~isEmpty'
    /\ emptyTimer'

\* C29 as stated: every head event that newWorkLoop processes signals a
\* reset to the watchdog, and the reset leaves the count at 0, the node
\* waiting and the timer armed
C29_EveryHeadResetsWatchdog ==
    [][ /\ (last'.op = "chainHead" => headEventSignalsReset)
        /\ (last'.op = "resetEmpty" => watchdogReset) ]_vars

\* C30: while the watchdog is voting, taskLoop hands no task to the engine;
\* when the watchdog enters the voting state no sealing is in flight; and a
\* task with a zero coinbase is never handed to the engine
C30_NoSealingWhileVoting ==
    [][ /\ (last'.op = "task" /\ last'.seal => ~isEmpty)
        /\ (~isEmpty /\ isEmpty' => stopCh' = Nil)
        /\ (stopCh' # Nil => Deref(stopCh').Coinbase # ZeroAddress) ]_vars

\* C24: isEmpty, cacheHeight and totalCondition are read and written by
\* emptyLoop only: no step of another goroutine reads or writes one of them
\* directly
C24_WatchdogVarsOwnedByEmptyLoop ==
    ("by" \in DOMAIN last /\ last.by # "emptyLoop")
        => (last.reads \cup last.writes) \cap WatchdogVars = {}

\* the goroutines that receive from the channel a goroutine stands at
Receivers(at) ==
    CASE at = "emptyCh" -> {"taskLoop"}
      [] at = "taskCh" -> {"taskLoop"}
      [] at = "newWorkCh" -> {"mainLoop"}
      [] at = "resetEmptyCh" -> {"emptyLoop"}
      [] at = "signatureResultCh" -> {"emptyLoop"}
      [] OTHER -> {}

\* the goroutine stands at a send that cannot complete by itself: the
\* channel is unbuffered, or its buffer is full
blocked(g) ==
    /\ Receivers(pc[g]) # {}
    /\ (pc[g] = "resetEmptyCh" => resetEmptyCh >= resetEmptyChSize)

\* every goroutine of the set is blocked on a goroutine of the set
deadlocked(S) ==
    /\ S # {}
    /\ \A g \in S : blocked(g) /\ Receivers(pc[g]) \subseteq S

blankAccount(obj) ==
    /\ obj.data.Nonce = 0
    /\ obj.data.Balance = 0
    /\ obj.data.Worm = Nil
    /\ obj.data.Csbt = Nil
    /\ obj.data.Staker = Nil

\* C38: Finalise with deleteEmptyObjects set marks as deleted every dirtied
\* account that has zero nonce, zero balance, empty code and no Wormholes,
\* CSBT or Staker record.
C38_FinaliseDeletesBlankAccounts ==
    [][last'.op = "Finalise"
          => \A a \in dirties(state) \cap DOMAIN state.stateObjects :
                 blankAccount(state.stateObjects[a])
                     => state'.stateObjects[a].deleted]_vars

\* the balance recorded for addr in a pledge list, 0 when it has no entry
entryOf(list, addr) == GetBalanceOf(list, addr)

\* the pledge records agree: the pledged balance of every account is the sum
\* of its ValidatorExtension, and the two records of every pair agree
pledgeRecordsAgree(db) ==
    \A v \in Addresses :
        /\ wormOf(db, v).PledgedBalance = SumBalance(wormOf(db, v).ValidatorExtension)
        /\ \A s \in Addresses :
               entryOf(wormOf(db, s).StakerExtension, v)
                   = entryOf(wormOf(db, v).ValidatorExtension, s)

\* C32: after any sequence of StakerPledge, NewCancelStakerPledge and
\* RevocateAllStakers, the pledged balance of every validator is the sum of
\* the balances of its ValidatorExtension, and the entry for v in the
\* StakerExtension of s has the balance of the entry for s in the
\* ValidatorExtension of v.
C32_PledgeRecordsAgree == pledgeRecordsAgree(state)

\* a validator holds its own pledge and a delegation, after a withdrawal of
\* a part of a pledge
C32_Witness ==
    /\ lastTx(last) /\ last.tx.w.Type = 4 /\ last.err = ""
    /\ last.tx.value < last.pledged
    /\ \E v \in Users : Len(wormOf(state, v).ValidatorExtension) = 2

\* the value held by all accounts: balances and pledged balances
totalValue(db) ==
    SumOver([a \in Addresses |-> balanceOf(db, a) + wormOf(db, a).PledgedBalance],
            Addresses)

pledgeOrWithdrawal(l) == lastTx(l) /\ l.tx.w.Type \in {3, 4}

\* C33: StakerPledge and NewCancelStakerPledge neither create nor destroy
\* value: the sum over all accounts, the burn address included, of balance
\* plus pledged balance is the same before and after each call, for any
\* amount and any coefficient.
C33_PledgeConservesValue ==
    [][pledgeOrWithdrawal(last') => totalValue(state') = totalValue(state)]_vars

\* a validator with a lowered coefficient withdrew its whole pledge, a part
\* of which went to the burn address, and its delegators were paid back
C33_Witness ==
    /\ fullSelfWithdrawal(last)
    /\ last.coe < VALIDATOR_COEFFICIENT
    /\ balanceOf(state, ZeroAddress) > 0
    /\ \E s \in Users \ {last.tx.from} :
           /\ accountAt(state, s) # Nil
           /\ Deref(accountAt(state, s)).Nonce > 0
           /\ balanceOf(state, s) = InitialBalance
    /\ totalValue(state) = 2 * InitialBalance

\* the third-party delegations on the validator v
delegations(db, v) ==
    {i \in 1..Len(wormOf(db, v).ValidatorExtension) :
        wormOf(db, v).ValidatorExtension[i].Addr # v}

\* C34: when a self-pledging validator withdraws its entire own pledge, every
\* third-party delegation on it is revoked in the same operation: each
\* delegator is credited exactly its delegated balance, the PledgedBalance
\* and the ValidatorExtension of the validator become empty, and the
\* validator is removed from the registry.
C34_FullWithdrawalRevokesDelegations ==
    [][fullSelfWithdrawal(last')
        => LET v == last'.tx.from
               ext == wormOf(state, v).ValidatorExtension
           IN  /\ \A i \in delegations(state, v) :
                      balanceOf(state', ext[i].Addr)
                          = balanceOf(state, ext[i].Addr) + ext[i].Balance
               /\ wormOf(state', v).PledgedBalance = 0
               /\ wormOf(state', v).ValidatorExtension = << >>
               /\ v \notin registryAddrs(state')]_vars

\* a validator withdrew its whole pledge while another user had delegated to
\* it: the delegator has sent a transaction, holds its initial balance again
\* and has no pledge left
C34_Witness ==
    /\ fullSelfWithdrawal(last)
    /\ \E s \in Users \ {last.tx.from} :
           /\ accountAt(state, s) # Nil
           /\ Deref(accountAt(state, s)).Nonce > 0
           /\ balanceOf(state, s) = InitialBalance
           /\ wormOf(state, s).StakerExtension = << >>
           /\ wormOf(state, s).PledgedBalance = 0

\* a coefficient raised by coe, held at the maximum
raisedBy(c, coe) ==
    IF c + coe <= VALIDATOR_COEFFICIENT THEN c + coe ELSE VALIDATOR_COEFFICIENT

\* C36: when a normal block is finalized, the coefficient of each validator
\* that signed the commit of the preceding normal block is increased by 20
\* (and never beyond the maximum of 70).
C36_SignersGainTwenty ==
    [][(last'.op = "Finalize" /\ ~last'.emptyBlock)
        => \A i \in 1..Len(last'.validatorAddr) :
               (\A j \in 1..Len(last'.others) : last'.others[j] # last'.validatorAddr[i])
                   => coefficientOf(state', last'.validatorAddr[i])
                          = raisedBy(coefficientOf(state, last'.validatorAddr[i]), 20)]_vars

\* the block reward of one validator and the part of it set aside for its
\* delegators
rewardOf(number) == GetRewardAmount(number, DREBlockReward)
stakersPart(number) == (rewardOf(number) * (100 - PercentageValidatorReward)) \div 100
validatorPart(number) == rewardOf(number) - stakersPart(number)

\* the sum delegated to v by third parties
delegatedTo(db, v) ==
    SumBalance(wormOf(db, v).ValidatorExtension)
        - GetBalanceOf(wormOf(db, v).ValidatorExtension, v)

\* the pro-rata share of the i-th entry of the ValidatorExtension of v
shareOf(db, v, i, number) ==
    MulDiv(stakersPart(number), wormOf(db, v).ValidatorExtension[i].Balance,
           delegatedTo(db, v))

\* the shares of the delegators of v, and what is left to v
paidOut(db, v, number) ==
    SumOver([i \in delegations(db, v) |-> shareOf(db, v, i, number)], delegations(db, v))

keptBy(db, v, number) == rewardOf(number) - paidOut(db, v, number)

\* what the reward of v adds to the balance of a
gainFrom(db, v, a, number) ==
    (IF a = v THEN keptBy(db, v, number) ELSE 0)
        + SumOver([i \in delegations(db, v) |->
                      IF wormOf(db, v).ValidatorExtension[i].Addr = a
                      THEN shareOf(db, v, i, number) ELSE 0],
                  delegations(db, v))

\* the rewards of a finalized block are paid as the pro-rata rule says, and
\* each rewarded validator adds exactly one block reward to the balances
rewardsPaidProRata(db, db2, rewarded, number) ==
    /\ \A a \in Addresses :
           balanceOf(db2, a) - balanceOf(db, a)
               = SumOver([k \in 1..Len(rewarded) |-> gainFrom(db, rewarded[k], a, number)],
                         1..Len(rewarded))
    /\ totalBalance(db2) - totalBalance(db) = Len(rewarded) * rewardOf(number)

\* what v keeps is the fixed percentage, and what the rounding down of the
\* shares leaves over
keepsFixedPart(db, v, number) ==
    /\ keptBy(db, v, number) >= validatorPart(number)
    /\ keptBy(db, v, number) < validatorPart(number) + 1 + Cardinality(delegations(db, v))

C31_FinalizeCompletes ==
    ~(last.op = "panic" /\ last.fn \in {"Finalize", "FinalizeAndAssemble"})

\* the header of the last step is the header of a non-empty block that
\* verification accepted
sealedAccepted ==
    /\ last.op = "verifySealedHeader" /\ last.err = ""
    /\ last.header.Coinbase # ZeroAddress /\ last.header.Number > 0

\* C35: the header of a non-empty block is accepted only if its committed
\* seals recover to pairwise distinct members of the validator set of its
\* height and the number of valid seals is strictly greater than F, the
\* maximum number of faulty validators.
C35_SealsDistinctAndAboveF ==
    sealedAccepted
        => /\ \A i \in 1..Len(last.seals) :
                  last.seals[i] # Nil /\ Deref(last.seals[i]) \in last.validators
           /\ \A i, j \in 1..Len(last.seals) : last.seals[i] = last.seals[j] => i = j
           /\ Len(last.seals) > F(last.validators)

\* a header with just enough seals for a set that tolerates one faulty
\* validator was accepted
C35_Witness ==
    /\ sealedAccepted
    /\ F(last.validators) = 1
    /\ Len(last.seals) = 2

\* the hashes of a list, and a list without repetition
hashesOf(list) == {list[i] : i \in 1..Len(list)}
writtenOnce(list) == \A i, j \in 1..Len(list) : list[i] = list[j] => i = j

\* one delivery wrote, announced and registered exactly the delivered block
persisted(before, after, b) ==
    /\ after.written = Append(before.written, b.hash)
    /\ after.mined = Append(before.mined, b.hash)
    /\ after.unconfirmed = Append(before.unconfirmed, <<b.number, b.hash>>)

onlyEmptyTasks(submitted) == \A i \in 1..Len(submitted) : submitted[i] = << >>

\* the interrupt signal is read at the top of every pass, before the pass
\* executes a transaction
checkedEveryPass(w) ==
    /\ Len(w.applied) <= w.bodies
    /\ w.bodies <= w.checks
    /\ (w.phase \in {"local", "remote"} /\ w.pc = "body") =>
            /\ w.checks > w.bodies
            /\ w.seen = commitInterruptNone

\* a new head discards the work: the closing commit is not reached and no
\* task with a transaction of the work is handed over
newHeadDiscards(w) ==
    /\ w.seen = commitInterruptNewHead =>
            /\ w.phase = "discarded"
            /\ w.commits = << >>
            /\ onlyEmptyTasks(w.submitted)
    /\ w.phase = "discarded" => w.seen = commitInterruptNewHead

\* a resubmit keeps what was applied and commits it
resubmitKeeps(w, l) ==
    w.seen = commitInterruptResubmit =>
        /\ w.applied = w.kept
        /\ w.phase \in {"remote", "commit", "done"}
        /\ w.phase = "done" =>
            /\ w.commits = <<w.kept>>
            /\ l.op = "commit"
            /\ (l.assembled /\ l.started) =>
                    /\ w.submitted # << >>
                    /\ w.submitted[Len(w.submitted)] = w.kept

\* C40: while the transactions of a normal block are applied the interrupt
\* signal is read once per pass of the loop, before the pass executes its
\* transaction, and no transaction is executed once a signal was read; after a
\* new-head signal the work is discarded and not submitted, after a resubmit
\* signal the transactions applied so far are kept and committed, and
\* submitted to taskLoop whenever the engine assembles the block and the
\* worker is running
C40_InterruptAtCheckpoint ==
    /\ [](work.phase # "idle" =>
            /\ checkedEveryPass(work)
            /\ newHeadDiscards(work)
            /\ resubmitKeeps(work, last))
    /\ [][ (work.phase # "idle" /\ work'.phase # "idle"
            /\ Len(work'.earlier) = Len(work.earlier)
            /\ work'.applied # work.applied)
           => /\ work.pc = "body"
              /\ work.seen = commitInterruptNone
              /\ work'.checks = work.checks
              /\ Len(work'.applied) = Len(work.applied) + 1 ]_vars

\* a work with an applied transaction was discarded on a new head, and the
\* work that followed was interrupted for a resubmit after it had applied a
\* transaction, which was submitted
C40_Witness ==
    /\ work.phase = "done"
    /\ work.earlier # << >>
    /\ work.earlier[1].seen = commitInterruptNewHead
    /\ work.earlier[1].applied # << >>
    /\ work.seen = commitInterruptResubmit
    /\ work.kept # << >>
    /\ Len(work.kept) < Len(work.pending[1]) + Len(work.pending[2])
    /\ work.submitted # << >>
    /\ work.submitted[Len(work.submitted)] = work.kept
====
